---------------------------- MODULE Spec2Model ----------------------------
(***************************************************************************)
(* Climate Group Helper: target-state reconciliation and command dispatch. *)
(*                                                                         *)
(* Python dicts are modelled as functions whose DOMAIN is the key set      *)
(* (a key whose value is None in a TargetState is simply not in the        *)
(* domain, exactly as TargetState.to_dict() drops it).  Numeric values are *)
(* scaled integers: hundredths of a degree / of a percent.                 *)
(***************************************************************************)
EXTENDS Integers, Sequences, FiniteSets, TLC

VARIABLES
    cfg,                \* ClimateGroup.config and the options read from it
    shared_target_state,\* ClimateGroup.shared_target_state (dict view)
    states,             \* hass.states of the member climate entities
    sensors,            \* hass.states of the window sensors
    timers,             \* WindowControlHandler._timers
    target_entity_ids,  \* WindowControlCallHandler._target_entity_ids
    debouncer,          \* per call handler: its Debouncer
    tasks,              \* running _execute_calls coroutines
    control_state,      \* WindowControlHandler._control_state (legacy mode)
    entity_context,     \* per member: the Context its entity last acted under
    event,              \* ClimateGroup.event not yet handled by the listener
    now,                \* time.time()
    startup_time,       \* ClimateGroup.startup_time
    schedule_task,      \* the schedule_listener coroutine, if one is running
    inputs,             \* number of stimuli the environment has issued
    platform_state,     \* "added", or "removed" once the entity was torn down
    obs                 \* observation of the step just taken (history)

vars == <<cfg, shared_target_state, states, sensors, timers, target_entity_ids,
          debouncer, tasks, control_state, entity_context, event, now,
          startup_time, schedule_task, inputs, platform_state, obs>>

-----------------------------------------------------------------------------
(* Bounds of the model *)

MaxRetry == 1
MaxTasks == 2
MaxTime == 1
MaxInputs == 2

-----------------------------------------------------------------------------
(* Program constants *)

FLOAT_TOLERANCE == 10
STARTUP_BLOCK_DELAY == 5
attr_min_temp == 700
NoneNum == -1

HVAC_OFF == "off"
STATE_UNAVAILABLE == "unavailable"
STATE_UNKNOWN == "unknown"
STATE_ON == "on"
STATE_OPEN == "open"
PyNone == "None"

\* TargetState core attributes, in dataclass field order
Attrs == <<"hvac_mode", "temperature", "target_temp_low", "target_temp_high",
           "humidity", "preset_mode", "fan_mode", "swing_mode",
           "swing_horizontal_mode">>
AttrSet == {Attrs[i] : i \in 1..Len(Attrs)}
MetaFields == {"last_source", "last_entity", "last_timestamp"}
SetpointAttrs == {"temperature", "target_temp_low", "target_temp_high", "humidity"}
RangeAttrs == {"target_temp_low", "target_temp_high"}

ATTR_SERVICE_MAP ==
    [a \in AttrSet |->
        CASE a = "hvac_mode" -> "set_hvac_mode"
          [] a \in {"temperature", "target_temp_low", "target_temp_high"} -> "set_temperature"
          [] a = "humidity" -> "set_humidity"
          [] a = "fan_mode" -> "set_fan_mode"
          [] a = "preset_mode" -> "set_preset_mode"
          [] a = "swing_mode" -> "set_swing_mode"
          [] OTHER -> "set_swing_horizontal_mode"]

MODE_MODES_MAP ==
    [a \in {"fan_mode", "hvac_mode", "preset_mode", "swing_mode", "swing_horizontal_mode"} |->
        CASE a = "fan_mode" -> "fan_modes"
          [] a = "hvac_mode" -> "hvac_modes"
          [] a = "preset_mode" -> "preset_modes"
          [] a = "swing_mode" -> "swing_modes"
          [] OTHER -> "swing_horizontal_modes"]

SYNC_TARGET_ATTRS == DOMAIN ATTR_SERVICE_MAP

\* Python None as the value of a member attribute whose key is present
NoneOf(a) == IF a \in SetpointAttrs THEN NoneNum ELSE PyNone

-----------------------------------------------------------------------------
(* The entities *)

Members == {"m1", "m2"}
GroupId == "climate.group"
Windows == {"w1", "w2"}

\* entity / device registry: the area of every entity
AreaOf == [e \in Members \cup Windows |->
             CASE e \in {"m1", "w1", "w2"} -> "a1"
               [] OTHER -> "a2"]

\* CONTEXT_ID of the four call handlers, SOURCE of the four state managers
Handlers == {"group", "sync_mode", "window_control", "schedule"}

EmptyDict == << >>
IsEmpty(d) == DOMAIN d = {}

\* WindowControlCallHandler._target_entity_ids is None
NoTargets == {PyNone}

\* dict helpers
Has(d, k) == k \in DOMAIN d
Merge(d, e) == [k \in DOMAIN d \cup DOMAIN e |-> IF k \in DOMAIN e THEN e[k] ELSE d[k]]
Restrict(d, K) == [k \in DOMAIN d \cap K |-> d[k]]
Abs(x) == IF x < 0 THEN -x ELSE x

-----------------------------------------------------------------------------
(* state.py : TargetState / FilterState / ChangeState *)

TargetFields == AttrSet \cup MetaFields

\* the None of a field, by the type of its values
NoneField(k) ==
    IF k \in SetpointAttrs \cup {"last_timestamp"} THEN NoneNum ELSE PyNone

\* an update that also resets the fields the caller did not provide
TargetState_update_reset(self, kwargs) ==
    LET valid == Restrict(kwargs, TargetFields)
    IN Restrict(valid, {k \in DOMAIN valid : valid[k] # NoneField(k)})

\* TargetState.update(**kwargs): dataclasses.replace on the valid fields,
\* a field replaced by None being absent from the new value
TargetState_update(self, kwargs) ==
    LET replaced == Merge(self, Restrict(kwargs, TargetFields))
    IN Restrict(replaced, {k \in DOMAIN replaced : replaced[k] # NoneField(k)})

\* TargetState.to_dict(attributes)
to_dict(self, attributes) == Restrict(self, attributes)

\* FilterState.from_keys(attributes).to_dict(): attr -> bool, metadata excluded
FilterState_from_keys(attributes) ==
    [a \in AttrSet |-> a \in attributes]

\* the FilterState every sync component builds from CONF_SYNC_ATTRS
filter_state == FilterState_from_keys(cfg.sync_attrs)

\* ClimateGroup.within_tolerance / ChangeState.from_event.within_tolerance
within_tolerance(val1, val2) ==
    /\ val1 # NoneNum
    /\ val2 # NoneNum
    /\ Abs(val1 - val2) < FLOAT_TOLERANCE

\* value a member reports for a TargetState field (from_event lines 150-153)
member_val(new_state, key) ==
    IF key = "hvac_mode" THEN new_state.state
    ELSE IF Has(new_state.attributes, key) THEN new_state.attributes[key]
    ELSE NoneOf(key)

\* ChangeState.from_event(event, target_state).attributes()
from_event_deviates(new_state, target_state, key) ==
    /\ Has(target_state, key)
    /\ member_val(new_state, key) # NoneOf(key)
    /\ member_val(new_state, key) # target_state[key]
    /\ ~(key \in {"temperature", "humidity"}
         /\ within_tolerance(target_state[key], member_val(new_state, key)))

from_event(new_state, target_state) ==
    [key \in {k \in AttrSet : from_event_deviates(new_state, target_state, k)} |->
        member_val(new_state, key)]

-----------------------------------------------------------------------------
(* window_control.py : force_off, climate.py : blocking_mode *)

is_open(w) == sensors[w] \in {STATE_ON, STATE_OPEN}

\* WindowControlHandler.force_off
force_off ==
    IF cfg.window_mode = "area_based"
    THEN \E w \in cfg.window_sensors : is_open(w)
    ELSE control_state = "open"

\* ClimateGroup.blocking_mode
blocking_mode == force_off

-----------------------------------------------------------------------------
(* state.py : the state managers (write gatekeepers) *)

\* BaseStateManager._check_blocking_mode
check_blocking_mode == ~blocking_mode

other_active_members(entity_id) ==
    {e \in Members : /\ e # entity_id
                     /\ states[e].state # HVAC_OFF
                     /\ states[e].state \notin {STATE_UNAVAILABLE, STATE_UNKNOWN}}

\* a partial-sync check that lets every write through
check_partial_sync_none(entity_id, kwargs) == TRUE

\* BaseStateManager._check_partial_sync
check_partial_sync(entity_id, kwargs) ==
    IF ~cfg.ignore_off_members THEN TRUE
    ELSE IF ~(Has(kwargs, "hvac_mode") /\ kwargs["hvac_mode"] = HVAC_OFF) THEN TRUE
    ELSE other_active_members(entity_id) = {}

\* ClimateStateManager._pre_update_filter
ClimateStateManager_pre_update_filter(entity_id, kwargs) == check_blocking_mode

\* SyncModeStateManager._pre_update_filter
SyncModeStateManager_pre_update_filter(entity_id, kwargs) ==
    /\ check_blocking_mode
    /\ check_partial_sync(entity_id, kwargs)

\* a window-control filter that lets writes through unless blocking
window_filter_accepting(entity_id, kwargs) == check_blocking_mode

\* WindowControlStateManager._pre_update_filter
WindowControlStateManager_pre_update_filter(entity_id, kwargs) == FALSE

\* BaseStateManager._pre_update_filter (ScheduleStateManager inherits it)
BaseStateManager_pre_update_filter(entity_id, kwargs) == TRUE

\* dispatch of _pre_update_filter on the manager's SOURCE
pre_update_filter(source, entity_id, kwargs) ==
    CASE source = "group" -> ClimateStateManager_pre_update_filter(entity_id, kwargs)
      [] source = "sync_mode" -> SyncModeStateManager_pre_update_filter(entity_id, kwargs)
      [] source = "window_control" -> WindowControlStateManager_pre_update_filter(entity_id, kwargs)
      [] OTHER -> BaseStateManager_pre_update_filter(entity_id, kwargs)

\* metadata without the fall-back to the group's entity id
provenance_no_fallback(source, entity_id) ==
    [k \in MetaFields |->
        CASE k = "last_source" -> source
          [] k = "last_entity" -> entity_id
          [] OTHER -> now]

\* the metadata BaseStateManager.update adds (entity_id = PyNone: no member)
provenance(source, entity_id) ==
    [k \in MetaFields |->
        CASE k = "last_source" -> source
          [] k = "last_entity" -> (IF entity_id # PyNone THEN entity_id ELSE GroupId)
          [] OTHER -> now]

\* BaseStateManager.update: the value of shared_target_state after the call
update_target(source, entity_id, kwargs) ==
    IF ~pre_update_filter(source, entity_id, kwargs)
    THEN shared_target_state
    ELSE TargetState_update(shared_target_state,
                            Merge(kwargs, provenance(source, entity_id)))

\* BaseStateManager.update: the returned bool
update_result(source, entity_id, kwargs) ==
    pre_update_filter(source, entity_id, kwargs)

-----------------------------------------------------------------------------
(* service_call.py : call generation *)

\* BaseServiceCallHandler._min_temp_when_off
min_temp_when_off(data) ==
    IF ~cfg.min_temp_off THEN data
    ELSE IF Has(data, "hvac_mode") /\ data["hvac_mode"] = HVAC_OFF
         THEN Merge(data, [k \in {"temperature"} |-> attr_min_temp])
         ELSE data

\* BaseServiceCallHandler._inject_call_kwargs
inject_call_kwargs(data) == min_temp_when_off(data)

\* wake-up blocking that lets every attribute through
block_wakeup_calls_none(data, attr) == FALSE

\* BaseServiceCallHandler._block_wakeup_calls
block_wakeup_calls(data, attr) ==
    IF Has(data, "hvac_mode") /\ data["hvac_mode"] = HVAC_OFF /\ attr # "hvac_mode"
    THEN ~(attr = "temperature" /\ cfg.min_temp_off)
    ELSE FALSE

\* _block_call_attr: ClimateCallHandler blocks nothing, the others use the base
block_call_attr(h, data, attr) ==
    IF h = "group" THEN FALSE ELSE block_wakeup_calls(data, attr)

\* handlers that never look at the blocking mode
block_all_calls_never(h, data) == FALSE

\* _block_all_calls of the four handlers
block_all_calls(h, data) ==
    CASE h = "group" ->
            IF Has(data, "hvac_mode") THEN FALSE ELSE blocking_mode
      [] h \in {"sync_mode", "schedule"} -> blocking_mode
      [] OTHER -> FALSE

\* target_value == HVACMode.OFF, for a value of attribute attr
is_off_value(attr, value) ==
    IF attr \in SetpointAttrs THEN FALSE ELSE value = HVAC_OFF

\* a dispatcher that passes over no member
skip_off_members_never(state, attr, target_value) == FALSE

\* BaseServiceCallHandler._skip_off_members
skip_off_members(state, attr, target_value) ==
    IF ~cfg.ignore_off_members THEN FALSE
    ELSE IF Has(shared_target_state, "hvac_mode")
            /\ shared_target_state["hvac_mode"] = HVAC_OFF THEN FALSE
    ELSE IF state.state # HVAC_OFF THEN FALSE
    ELSE IF is_off_value(attr, target_value) THEN FALSE
    ELSE \E member_id \in Members :
            /\ states[member_id].state \notin {STATE_UNAVAILABLE, STATE_UNKNOWN}
            /\ states[member_id].state # HVAC_OFF

\* "check mode support" of _get_unsynced_entities (lines 247-252)
supports(state, attr, target_value) ==
    IF attr \in DOMAIN MODE_MODES_MAP
    THEN /\ Has(state.attributes, MODE_MODES_MAP[attr])
         /\ target_value \in state.attributes[MODE_MODES_MAP[attr]]
    ELSE Has(state.attributes, attr)

\* current_value of _get_unsynced_entities (line 254)
current_value(state, attr) ==
    IF attr = "hvac_mode" THEN state.state
    ELSE IF Has(state.attributes, attr) THEN state.attributes[attr]
    ELSE NoneOf(attr)

\* one member of the loop of _get_unsynced_entities
is_unsynced(entity_id, attr, target_value) ==
    LET state == states[entity_id] IN
    /\ supports(state, attr, target_value)
    /\ ~skip_off_members(state, attr, target_value)
    /\ ~(attr \in SetpointAttrs /\ within_tolerance(current_value(state, attr), target_value))
    /\ current_value(state, attr) # target_value

\* BaseServiceCallHandler._get_unsynced_entities
get_unsynced_entities(attr) ==
    IF ~Has(shared_target_state, attr) THEN {}
    ELSE {entity_id \in Members :
            is_unsynced(entity_id, attr, shared_target_state[attr])}

\* a sync handler without its override: the base _get_call_entity_ids
get_call_entity_ids_base(h, attr, tids) ==
    IF h = "window_control" /\ tids # NoTargets THEN tids ELSE Members

\* _get_call_entity_ids of the four handlers (tids: _target_entity_ids)
get_call_entity_ids(h, attr, tids) ==
    CASE h = "sync_mode" -> get_unsynced_entities(attr)
      [] h = "window_control" ->
            IF tids # NoTargets THEN tids ELSE Members
      [] OTHER -> Members

\* filter_attrs.get(attr, True) for the filter_state the handler passes
filter_allows(h, attr) ==
    IF h = "sync_mode" THEN filter_state[attr] ELSE TRUE

\* the loop without the range branch: one command per attribute
RECURSIVE calls_from_split(_, _, _, _, _)
calls_from_split(h, data, i, temp_range_processed, tids) ==
    IF i > Len(Attrs) THEN << >>
    ELSE
    LET attr == Attrs[i] IN
    IF \/ ~Has(data, attr)
       \/ ~filter_allows(h, attr)
       \/ block_call_attr(h, data, attr)
       \/ get_call_entity_ids(h, attr, tids) = {}
    THEN calls_from_split(h, data, i + 1, temp_range_processed, tids)
    ELSE << [service |-> ATTR_SERVICE_MAP[attr],
             kwargs |-> Restrict(data, {attr}),
             entity_ids |-> get_call_entity_ids(h, attr, tids)] >>
         \o calls_from_split(h, data, i + 1, temp_range_processed, tids)

\* the loop of _generate_calls_from_dict from the i-th attribute on
RECURSIVE calls_from(_, _, _, _, _)
calls_from(h, data, i, temp_range_processed, tids) ==
    IF i > Len(Attrs) THEN << >>
    ELSE
    LET attr == Attrs[i] IN
    IF \/ ~Has(data, attr)
       \/ ~filter_allows(h, attr)
       \/ block_call_attr(h, data, attr)
    THEN calls_from(h, data, i + 1, temp_range_processed, tids)
    ELSE IF attr \in RangeAttrs
    THEN IF /\ ~temp_range_processed
            /\ Has(data, "target_temp_low")
            /\ Has(data, "target_temp_high")
            /\ get_call_entity_ids(h, attr, tids) # {}
         THEN << [service |-> "set_temperature",
                  kwargs |-> Restrict(data, RangeAttrs),
                  entity_ids |-> get_call_entity_ids(h, attr, tids)] >>
              \o calls_from(h, data, i + 1, TRUE, tids)
         ELSE calls_from(h, data, i + 1, temp_range_processed, tids)
    ELSE IF get_call_entity_ids(h, attr, tids) # {}
    THEN << [service |-> ATTR_SERVICE_MAP[attr],
             kwargs |-> Restrict(data, {attr}),
             entity_ids |-> get_call_entity_ids(h, attr, tids)] >>
         \o calls_from(h, data, i + 1, temp_range_processed, tids)
    ELSE calls_from(h, data, i + 1, temp_range_processed, tids)

\* data = data or self.target_state.to_dict()
effective_data(data) ==
    IF IsEmpty(data) THEN shared_target_state ELSE data

\* BaseServiceCallHandler._generate_calls_from_dict
generate_calls_from_dict(h, data, tids) ==
    calls_from(h, inject_call_kwargs(effective_data(data)), 1, FALSE, tids)

\* _generate_calls of the four handlers
generate_calls(h, data, tids) ==
    IF h = "group" /\ IsEmpty(data) THEN << >>
    ELSE generate_calls_from_dict(h, data, tids)

\* BaseServiceCallHandler._get_parent_id: "Timestamp|MasterEntityID"
get_parent_id ==
    [timestamp |-> now,
     master |-> IF Has(shared_target_state, "last_entity")
                THEN shared_target_state["last_entity"] ELSE ""]

-----------------------------------------------------------------------------
(* service_call.py : _execute_calls as a coroutine, one record per run *)

Idle == [pc |-> "idle"]
TaskIds == 1..MaxTasks
FreeSlots == {t \in TaskIds : tasks[t].pc = "idle"}
FreeSlot == CHOOSE t \in FreeSlots : \A u \in FreeSlots : t <= u

\* data = {ATTR_ENTITY_ID: call["entity_ids"], **call["kwargs"]} (line 135)
service_data(call) ==
    Merge([k \in {"entity_id"} |-> call.entity_ids], call.kwargs)

\* which dict the next attempt is generated from once a call was built:
\* line 135 rebinds the coroutine's own parameter `data`
rebound_data(call) == service_data(call)

\* one pass of the retry loop up to the first await (lines 124-137);
\* failed: the except clause of lines 147-148 ended the pass
begin_attempt(h, data, attempt, debounced, tids) ==
    LET calls == generate_calls(h, data, tids) IN
    IF calls = << >> THEN Idle
    ELSE [pc |-> "await", h |-> h, data |-> rebound_data(calls[1]),
          attempt |-> attempt, calls |-> calls, parent_id |-> get_parent_id,
          pending |-> calls[1].entity_ids, debounced |-> debounced,
          failed |-> FALSE]

\* _execute_calls up to its first await (lines 112-137)
execute_calls(h, data, debounced, tids) ==
    IF block_all_calls(h, data) THEN Idle
    ELSE begin_attempt(h, data, 0, debounced, tids)

\* a loop that leaves after its first pass
end_attempt_once(task) == Idle

\* a loop that never runs out of attempts
end_attempt_again(task) ==
    [task EXCEPT !.pc = "sleep", !.calls = << >>, !.pending = {}]

\* lines 150-151: sleep before the next attempt, or leave the loop
end_attempt(task) ==
    IF task.attempt < cfg.retry_attempts
    THEN [task EXCEPT !.pc = "sleep", !.calls = << >>, !.pending = {}]
    ELSE Idle

\* what the attempt recorded in obs was generated from
attempt_obs(h, data, attempt, tids) ==
    [op |-> "attempt", h |-> h, data |-> data, attempt |-> attempt,
     tids |-> tids,
     blocked |-> (attempt = 0 /\ block_all_calls(h, data)),
     calls |-> IF attempt = 0 /\ block_all_calls(h, data) THEN << >>
               ELSE generate_calls(h, data, tids)]

\* homeassistant Debouncer (immediate=False) as used by call_debounced:
\* a call made while the job runs is dropped, otherwise the timer is
\* (re)started with the new function
NoDebouncer == [timer |-> FALSE, data |-> EmptyDict, locked |-> FALSE]

\* a debouncer that keeps the request it already holds
call_debounced_keep_first(deb, data) ==
    IF deb.locked \/ deb.timer THEN deb
    ELSE [timer |-> TRUE, data |-> data, locked |-> FALSE]

call_debounced(deb, data) ==
    IF deb.locked THEN deb
    ELSE [timer |-> TRUE, data |-> data, locked |-> FALSE]

\* the debounced job finished: release the Debouncer's execute lock
unlock(deb, task, newtask) ==
    IF task.debounced /\ newtask.pc = "idle"
    THEN [deb EXCEPT ![task.h].locked = FALSE]
    ELSE deb

-----------------------------------------------------------------------------
(* sync_mode.py : SyncModeHandler.resync, climate.py : the state listener *)

trusted_context_ids == {"service_call", "group", "sync_mode", "schedule"}

\* an event's causal context: kind "call" when context.origin_event is a
\* call_service event, "state" when it is the state change itself
Independent == [kind |-> "state", id |-> "external", domain |-> "",
                master |-> "", service_data |-> EmptyDict, timestamp |-> 0]

\* an event whose context carries no origin event (origin_event is None)
Unclassifiable == [Independent EXCEPT !.kind = "none"]

own_echo(ctx) ==
    /\ ctx.kind = "call"
    /\ ctx.domain = "climate"
    /\ ctx.id \in trusted_context_ids

\* side effects accepted whoever reports them
accepted_changes_any_reporter(change_dict, change_entity_id, ctx) ==
    Restrict(change_dict,
        {attr \in DOMAIN change_dict : ~Has(ctx.service_data, attr)})

\* mismatching echoes of ordered attributes accepted as well
accepted_changes_with_dirty(change_dict, change_entity_id, ctx) ==
    Restrict(change_dict,
        {attr \in DOMAIN change_dict :
            IF Has(ctx.service_data, attr)
            THEN ctx.service_data[attr] # change_dict[attr]
            ELSE ~(ctx.master # "" /\ change_entity_id # ctx.master)})

\* side effects masked by the FilterState like a Mirror adoption
accepted_changes_masked(change_dict, change_entity_id, ctx) ==
    Restrict(change_dict,
        {attr \in DOMAIN change_dict :
            /\ ~Has(ctx.service_data, attr)
            /\ ~(ctx.master # "" /\ change_entity_id # ctx.master)
            /\ filter_state[attr]})

\* lines 128-169: the side effects of an own echo that are accepted
accepted_changes(change_dict, change_entity_id, ctx) ==
    Restrict(change_dict,
        {attr \in DOMAIN change_dict :
            /\ ~Has(ctx.service_data, attr)
            /\ ~(ctx.master # "" /\ change_entity_id # ctx.master)})

\* line 186
is_switching_on(change_dict) ==
    Has(change_dict, "hvac_mode") /\ change_dict["hvac_mode"] # HVAC_OFF

\* a filter that lets the setpoints through
setpoint_filtered_none(change_dict) == change_dict

\* lines 188-190: the setpoint filter while the target is off
setpoint_filtered(change_dict) ==
    IF /\ Has(shared_target_state, "hvac_mode")
       /\ shared_target_state["hvac_mode"] = HVAC_OFF
       /\ ~is_switching_on(change_dict)
    THEN Restrict(change_dict, DOMAIN change_dict \ SetpointAttrs)
    ELSE change_dict

\* a Mirror mask that lets every delta attribute through
filtered_dict_all(change_dict) == change_dict

\* lines 197-200: the Mirror mask
filtered_dict(change_dict) ==
    Restrict(change_dict, {key \in DOMAIN change_dict : filter_state[key]})

\* lines 68-71: the startup block, for startup_time = started
startup_blocked(started) ==
    started # NoneNum /\ (now - started) < STARTUP_BLOCK_DELAY

\* what resync does with an event: "none" | "echo" | "independent", or
\* "raise": the arguments of the debug call of lines 96-99 dereference
\* origin_event, an AttributeError when it is None
resync_branch(change_dict, ctx, started) ==
    IF cfg.sync_mode = "standard" THEN "none"
    ELSE IF startup_blocked(started) THEN "none"
    ELSE IF blocking_mode THEN "none"
    ELSE IF IsEmpty(change_dict) THEN "none"
    ELSE IF ctx.kind = "none" THEN "raise"
    ELSE IF ctx.id = "window_control" THEN "none"
    ELSE IF own_echo(ctx) THEN "echo"
    ELSE IF IsEmpty(setpoint_filtered(change_dict)) THEN "none"
    ELSE "independent"

\* the kwargs resync hands to state_manager.update (EmptyDict: no call)
resync_update(change_dict, change_entity_id, ctx, started) ==
    LET branch == resync_branch(change_dict, ctx, started) IN
    IF branch = "echo" THEN accepted_changes(change_dict, change_entity_id, ctx)
    ELSE IF branch = "independent" THEN
        IF cfg.sync_mode = "mirror"
        THEN filtered_dict(setpoint_filtered(change_dict))
        ELSE IF /\ cfg.sync_mode = "lock"
                /\ cfg.ignore_off_members
                /\ Has(setpoint_filtered(change_dict), "hvac_mode")
                /\ setpoint_filtered(change_dict)["hvac_mode"] = HVAC_OFF
        THEN [k \in {"hvac_mode"} |-> HVAC_OFF]
        ELSE EmptyDict
    ELSE EmptyDict

\* shared_target_state after resync
resync_target(change_dict, change_entity_id, ctx, started) ==
    LET kwargs == resync_update(change_dict, change_entity_id, ctx, started) IN
    IF IsEmpty(kwargs) THEN shared_target_state
    ELSE update_target("sync_mode", change_entity_id, kwargs)

\* enforcement scheduled after own echoes as well
resync_schedules_echo(change_dict, ctx, started) ==
    resync_branch(change_dict, ctx, started) \in {"echo", "independent"}

\* whether resync ends by call_handler.call_debounced() (lines 219-225)
resync_schedules(change_dict, ctx, started) ==
    resync_branch(change_dict, ctx, started) = "independent"

-----------------------------------------------------------------------------
(* Bounded input domains *)

Capabilities(m) ==
    [k \in {"hvac_modes", "fan_modes"} |->
        IF k = "hvac_modes" THEN {"off", "heat"}
        ELSE IF m = "m1" THEN {"low", "high"} ELSE {"high"}]

Snapshot(m, st, attrs) ==
    [state |-> st, attributes |-> Merge(Capabilities(m), attrs)]

\* an unavailable entity keeps only its capability attributes
Unavailable(m) == Snapshot(m, STATE_UNAVAILABLE, EmptyDict)

TempDicts(vals) == {[k \in {"temperature"} |-> v] : v \in vals}
RangeDict(lo, hi) ==
    [k \in RangeAttrs |-> IF k = "target_temp_low" THEN lo ELSE hi]
FanDict(v) == [k \in {"fan_mode"} |-> v]
HumDict(v) == [k \in {"humidity"} |-> v]
ModeDict(v) == [k \in {"hvac_mode"} |-> v]

NoEvent == [entity_id |-> PyNone]
NoContext == [kind |-> "none"]

-----------------------------------------------------------------------------
(* climate.py : the aggregated group state and the cold start *)

\* the members in the order of climate_entity_ids
Position(m) == IF m = "m1" THEN 1 ELSE 2

\* _determine_hvac_mode under the default (normal) strategy, for the valid
\* members: off when all are off, else the most common active mode, the
\* first one in member order on a tie
determine_hvac_mode(valid) ==
    LET active == {m \in valid : states[m].state # HVAC_OFF}
        count(m) == Cardinality({n \in active : states[n].state = states[m].state})
        best == {m \in active : \A n \in active : count(m) >= count(n)}
        first == CHOOSE m \in best : \A n \in best : Position(m) <= Position(n)
    IN IF active = {} THEN HVAC_OFF ELSE states[first].state

\* sum of a numeric attribute over a set of members
RECURSIVE SumOf(_, _)
SumOf(ms, key) ==
    IF ms = {} THEN 0
    ELSE LET m == CHOOSE x \in ms : TRUE
         IN states[m].attributes[key] + SumOf(ms \ {m}, key)

\* reduce_attribute(states, key, reduce=mean): none without a value, the
\* value itself when one member has one, else the mean (in hundredths,
\* exact when the sum is a multiple of the count; the scenarios that start
\* with an empty target give each numeric attribute to one member)
reduce_attribute(valid, key) ==
    LET having == {m \in valid : Has(states[m].attributes, key)}
    IN IF having = {} THEN NoneNum
       ELSE SumOf(having, key) \div Cardinality(having)

\* most_frequent_attribute(states, key): max(set(attrs), key=attrs.count);
\* on a tie the winner depends on the set's iteration order, so every
\* most frequent value is a possible result (empty: None)
most_frequent_attribute(valid, key) ==
    LET having == {m \in valid : Has(states[m].attributes, key)}
        count(m) == Cardinality({n \in having :
                        states[n].attributes[key] = states[m].attributes[key]})
    IN {states[m].attributes[key] :
            m \in {x \in having : \A n \in having : count(x) >= count(n)}}

\* the numeric part of CurrentState(...).to_dict(): values that are not None
current_numbers(valid) ==
    LET keys == {k \in {"temperature", "target_temp_low", "target_temp_high",
                        "humidity"} : reduce_attribute(valid, k) # NoneNum}
    IN [k \in keys |-> reduce_attribute(valid, k)]

\* current_group_state.to_dict() after async_update_group_state aggregated
\* the valid members: every dict it can be
current_group_states(valid) ==
    LET base == Merge(ModeDict(determine_hvac_mode(valid)), current_numbers(valid))
    IN IF most_frequent_attribute(valid, "fan_mode") = {} THEN {base}
       ELSE {Merge(base, FanDict(f)) : f \in most_frequent_attribute(valid, "fan_mode")}

\* lines 818-824: schedule_state_manager.update(last_source="restore",
\* **initial_data) on an empty target
cold_start(initial_data) ==
    IF IsEmpty(initial_data) THEN shared_target_state
    ELSE update_target("schedule", PyNone,
                       Merge(initial_data, [k \in {"last_source"} |-> "restore"]))

-----------------------------------------------------------------------------
(* Actions *)

Quiet == event = NoEvent /\ schedule_task # "dispatch"

\* hass.states.async_set for member m: the state machine takes the new
\* state and fires state_changed under ctx; the group's listener is
\* subscribed until the entity is removed (climate.py lines 313-317)
state_changed(m, new_state, ctx) ==
    /\ states' = [states EXCEPT ![m] = new_state]
    /\ event' = IF platform_state = "added"
                THEN [entity_id |-> m, ctx |-> ctx] ELSE NoEvent

\* the observation an event leaves: what resync saw and what it decided
event_obs(change_dict, branch, kwargs, result, scheduled) ==
    [op |-> "event", entity_id |-> event.entity_id, ctx |-> event.ctx,
     change_dict |-> change_dict, branch |-> branch,
     source |-> "sync_mode", kwargs |-> kwargs, result |-> result,
     before |-> shared_target_state, scheduled |-> scheduled,
     blocking |-> blocking_mode]

\* ClimateGroup._state_change_listener -> async_update_group_state
\* (lines 640-670 and 818-824), for the event the state machine just fired
Listener ==
    /\ event # NoEvent
    /\ LET valid == {m \in Members :
                        states[m].state \notin {STATE_UNAVAILABLE, STATE_UNKNOWN}}
           all_members_ready == valid = Members
           first_ready == startup_time = NoneNum /\ all_members_ready
           started == IF first_ready THEN now ELSE startup_time
           change_dict == from_event(states[event.entity_id], shared_target_state)
           kwargs == resync_update(change_dict, event.entity_id, event.ctx, started)
           branch == resync_branch(change_dict, event.ctx, started)
       IN
       /\ startup_time' = started
       /\ schedule_task' = IF first_ready /\ cfg.schedule_entity /\ schedule_task = "none"
                           THEN "group" ELSE schedule_task
       /\ IF valid = {}
          THEN /\ UNCHANGED <<shared_target_state, debouncer>>
               /\ obs' = event_obs(change_dict, "none", EmptyDict, FALSE, FALSE)
          ELSE /\ IF IsEmpty(shared_target_state)
                  THEN \E initial_data \in current_group_states(valid) :
                            shared_target_state' = cold_start(initial_data)
                  ELSE shared_target_state' =
                        resync_target(change_dict, event.entity_id, event.ctx, started)
               /\ debouncer' =
                    IF resync_schedules(change_dict, event.ctx, started)
                    THEN [debouncer EXCEPT !["sync_mode"] =
                            call_debounced(debouncer["sync_mode"], EmptyDict)]
                    ELSE debouncer
               /\ obs' = event_obs(change_dict, branch, kwargs,
                            /\ ~IsEmpty(kwargs)
                            /\ update_result("sync_mode", event.entity_id, kwargs),
                            resync_schedules(change_dict, event.ctx, started))
    /\ event' = NoEvent
    /\ UNCHANGED <<platform_state, cfg, states, sensors, timers, target_entity_ids, tasks,
                   control_state, entity_context, now, inputs>>

\* the seven async_set_* entry points (climate.py lines 826-859)
UserCommand(kwargs) ==
    /\ Quiet
    /\ platform_state = "added"
    /\ inputs < MaxInputs
    /\ inputs' = inputs + 1
    /\ shared_target_state' = update_target("group", PyNone, kwargs)
    /\ debouncer' = [debouncer EXCEPT !["group"] =
                        call_debounced(debouncer["group"], kwargs)]
    /\ obs' = [op |-> "update", source |-> "group", entity_id |-> PyNone,
               kwargs |-> kwargs, before |-> shared_target_state,
               result |-> update_result("group", PyNone, kwargs),
               blocking |-> blocking_mode]
    /\ UNCHANGED <<platform_state, cfg, states, sensors, timers, target_entity_ids, tasks,
                   control_state, entity_context, event, now, startup_time,
                   schedule_task>>

\* the Debouncer's timer fires: debounce_func -> _execute_calls(data)
DebounceFire(h) ==
    /\ Quiet
    /\ debouncer[h].timer
    /\ FreeSlots # {}
    /\ LET task == execute_calls(h, debouncer[h].data, TRUE, target_entity_ids) IN
       /\ tasks' = [tasks EXCEPT ![FreeSlot] = task]
       /\ debouncer' = [debouncer EXCEPT ![h] =
                            [timer |-> FALSE, data |-> EmptyDict,
                             locked |-> task.pc # "idle"]]
    /\ obs' = attempt_obs(h, debouncer[h].data, 0, target_entity_ids)
    /\ UNCHANGED <<platform_state, cfg, shared_target_state, states, sensors, timers,
                   target_entity_ids, control_state, entity_context, event, now,
                   startup_time, schedule_task, inputs>>

\* the state a member takes when it carries out a service call
apply_call(state, call) ==
    LET kw == call.kwargs
        ok(k) == IF k \in DOMAIN MODE_MODES_MAP
                 THEN /\ Has(state.attributes, MODE_MODES_MAP[k])
                      /\ kw[k] \in state.attributes[MODE_MODES_MAP[k]]
                 ELSE Has(state.attributes, k)
    IN [state |-> IF Has(kw, "hvac_mode") /\ ok("hvac_mode")
                  THEN kw["hvac_mode"] ELSE state.state,
        attributes |-> [k \in DOMAIN state.attributes |->
                          IF Has(kw, k) /\ k # "hvac_mode" /\ ok(k)
                          THEN kw[k] ELSE state.attributes[k]]]

call_context(task) ==
    [kind |-> "call", id |-> task.h, domain |-> "climate",
     master |-> task.parent_id.master,
     service_data |-> service_data(task.calls[1]),
     timestamp |-> task.parent_id.timestamp]

\* hass.services.async_call reaches member m, which carries the call out
MemberApply(t, m) ==
    /\ Quiet
    /\ tasks[t].pc = "await"
    /\ m \in tasks[t].pending
    /\ states[m].state \notin {STATE_UNAVAILABLE, STATE_UNKNOWN}
    /\ tasks' = [tasks EXCEPT ![t].pending = @ \ {m}]
    /\ entity_context' = [entity_context EXCEPT ![m] = call_context(tasks[t])]
    /\ LET new_state == apply_call(states[m], tasks[t].calls[1]) IN
       IF new_state = states[m]
       THEN UNCHANGED <<states, event>>
       ELSE state_changed(m, new_state, call_context(tasks[t]))
    /\ obs' = [op |-> "apply", entity_id |-> m, h |-> tasks[t].h,
               kwargs |-> tasks[t].calls[1].kwargs]
    /\ UNCHANGED <<platform_state, cfg, shared_target_state, sensors, timers, target_entity_ids,
                   debouncer, control_state, now, startup_time,
                   schedule_task, inputs>>

\* call_immediate's finally clause (service_call.py line 429)
release_target_ids(task, newtask) ==
    IF task.h = "window_control" /\ newtask.pc = "idle"
    THEN NoTargets ELSE target_entity_ids

\* the awaited async_call (blocking=True) returns once every available
\* target has carried the call out (ok), or raises (lines 137-151)
CallReturn(t, ok) ==
    /\ Quiet
    /\ tasks[t].pc = "await"
    /\ IF ok
       THEN \A m \in tasks[t].pending :
                states[m].state \in {STATE_UNAVAILABLE, STATE_UNKNOWN}
       ELSE inputs < MaxInputs
    /\ inputs' = IF ok THEN inputs ELSE inputs + 1
    /\ LET task == tasks[t]
           rest == Tail(task.calls)
           newtask == IF ok /\ rest # << >>
                      THEN [task EXCEPT !.calls = rest,
                                        !.data = rebound_data(rest[1]),
                                        !.pending = rest[1].entity_ids]
                      ELSE end_attempt([task EXCEPT !.failed = ~ok])
       IN /\ tasks' = [tasks EXCEPT ![t] = newtask]
          /\ debouncer' = unlock(debouncer, task, newtask)
          /\ target_entity_ids' = release_target_ids(task, newtask)
          /\ obs' = [op |-> "return", h |-> task.h, ok |-> ok,
                     attempt |-> task.attempt, done |-> newtask.pc = "idle"]
    /\ UNCHANGED <<platform_state, cfg, shared_target_state, states, sensors, timers,
                   control_state, entity_context, event, now, startup_time,
                   schedule_task>>

\* asyncio.sleep(delay) is over: the next pass of the retry loop
RetryWake(t) ==
    /\ Quiet
    /\ tasks[t].pc = "sleep"
    /\ LET task == tasks[t]
           newtask == begin_attempt(task.h, task.data, task.attempt + 1,
                                    task.debounced, target_entity_ids)
       IN /\ tasks' = [tasks EXCEPT ![t] = newtask]
          /\ debouncer' = unlock(debouncer, task, newtask)
          /\ target_entity_ids' = release_target_ids(task, newtask)
          /\ obs' = attempt_obs(task.h, task.data, task.attempt + 1,
                                target_entity_ids)
    /\ UNCHANGED <<platform_state, cfg, shared_target_state, states, sensors, timers,
                   control_state, entity_context, event, now, startup_time,
                   schedule_task, inputs>>

async_set_hvac_mode(hvac_mode) ==
    UserCommand(ModeDict(hvac_mode))

async_set_temperature(kwargs) ==
    UserCommand(kwargs)

async_set_humidity(humidity) ==
    UserCommand(HumDict(humidity))

async_set_fan_mode(fan_mode) ==
    UserCommand(FanDict(fan_mode))

\* the state a member reports when one of its values changes
report_state(state, a, v) ==
    IF a = "hvac_mode" THEN [state EXCEPT !.state = v]
    ELSE [state EXCEPT !.attributes[a] = v]

\* member m writes a new state: on its own (a fresh context) or still under
\* the context of the service call it last carried out
MemberReport(m, a, v, own) ==
    /\ Quiet
    /\ inputs < MaxInputs
    /\ inputs' = inputs + 1
    /\ states[m].state \notin {STATE_UNAVAILABLE, STATE_UNKNOWN}
    /\ a = "hvac_mode" \/ Has(states[m].attributes, a)
    /\ report_state(states[m], a, v) # states[m]
    /\ own => /\ entity_context[m].kind = "call"
              /\ entity_context[m].timestamp = now
    /\ state_changed(m, report_state(states[m], a, v),
                     IF own THEN entity_context[m] ELSE Independent)
    /\ entity_context' = IF own THEN entity_context
                         ELSE [entity_context EXCEPT ![m] = NoContext]
    /\ obs' = [op |-> "report", entity_id |-> m, own |-> own]
    /\ UNCHANGED <<platform_state, cfg, shared_target_state, sensors, timers, target_entity_ids,
                   debouncer, tasks, control_state, now, startup_time,
                   schedule_task>>

\* member m writes a new state and the event reaches the listener with a
\* context that has no origin event
BareReport(m, a, v) ==
    /\ Quiet
    /\ inputs < MaxInputs
    /\ inputs' = inputs + 1
    /\ states[m].state \notin {STATE_UNAVAILABLE, STATE_UNKNOWN}
    /\ a = "hvac_mode" \/ Has(states[m].attributes, a)
    /\ report_state(states[m], a, v) # states[m]
    /\ state_changed(m, report_state(states[m], a, v), Unclassifiable)
    /\ entity_context' = [entity_context EXCEPT ![m] = NoContext]
    /\ obs' = [op |-> "report", entity_id |-> m, own |-> FALSE]
    /\ UNCHANGED <<platform_state, cfg, shared_target_state, sensors, timers,
                   target_entity_ids, debouncer, tasks, control_state, now,
                   startup_time, schedule_task>>

\* time passes
Tick ==
    /\ Quiet
    /\ inputs < MaxInputs
    /\ inputs' = inputs + 1
    /\ now < (MaxTime + 2) * STARTUP_BLOCK_DELAY
    /\ now' = now + STARTUP_BLOCK_DELAY
    /\ obs' = [op |-> "tick"]
    /\ UNCHANGED <<platform_state, cfg, shared_target_state, states, sensors, timers,
                   target_entity_ids, debouncer, tasks, control_state,
                   entity_context, event, startup_time, schedule_task>>

-----------------------------------------------------------------------------
(* window_control.py : area-based window control *)

\* WindowControlHandler._get_thermostats_in_area(_get_entity_area(window_id))
thermostats_in_area(window_id) ==
    {member_id \in Members : AreaOf[member_id] = AreaOf[window_id]}

\* a close handler that never looks at the other windows
area_windows_open_unchecked(window_id) == FALSE

\* lines 397-408: another window of the same area is still open
area_windows_open(window_id) ==
    \E sensor_id \in cfg.window_sensors :
        /\ sensor_id # window_id
        /\ AreaOf[sensor_id] = AreaOf[window_id]
        /\ is_open(sensor_id)

\* a restore that sends what the target held when the window opened
restore_data_stale ==
    Merge(ModeDict("heat"), [k \in {"temperature"} |-> 2100])

\* lines 430-434
restore_data == Restrict(shared_target_state, {"hvac_mode", "temperature"})

\* a listener that leaves a running timer alone
scheduled_timer_uncancelled(current, st) ==
    IF current # "none" \/ st \in {STATE_UNAVAILABLE, STATE_UNKNOWN} THEN current
    ELSE IF st \in {STATE_ON, STATE_OPEN} THEN "open" ELSE "close"

\* lines 317-349: the timer of a window after its sensor reported st; a
\* running timer is cancelled and replaced
scheduled_timer(current, st) ==
    IF st \in {STATE_UNAVAILABLE, STATE_UNKNOWN} THEN current
    ELSE IF st \in {STATE_ON, STATE_OPEN} THEN "open" ELSE "close"

\* a window sensor changes state; _area_based_listener (re)starts its timer
SensorEvent(w, st) ==
    /\ Quiet
    /\ inputs < MaxInputs
    /\ inputs' = inputs + 1
    /\ cfg.window_mode = "area_based"
    /\ w \in cfg.window_sensors
    /\ sensors[w] # st
    /\ sensors' = [sensors EXCEPT ![w] = st]
    /\ timers' = IF platform_state = "added"
                 THEN [timers EXCEPT ![w] = scheduled_timer(timers[w], st)]
                 ELSE timers
    /\ obs' = [op |-> "sensor", entity_id |-> w]
    /\ UNCHANGED <<platform_state, cfg, shared_target_state, states, target_entity_ids,
                   debouncer, tasks, control_state, entity_context, event, now,
                   startup_time, schedule_task>>

\* WindowControlCallHandler.call_immediate(data, entity_ids) up to its
\* first await
window_call_immediate(data, entity_ids) ==
    /\ FreeSlots # {}
    /\ LET task == execute_calls("window_control", data, FALSE, entity_ids) IN
       /\ tasks' = [tasks EXCEPT ![FreeSlot] = task]
       /\ target_entity_ids' = IF task.pc = "idle" THEN NoTargets ELSE entity_ids
    /\ obs' = attempt_obs("window_control", data, 0, entity_ids)

\* the timer of window w expires: _handle_window_opened / _handle_window_closed
WindowTimerFire(w) ==
    /\ Quiet
    /\ timers[w] # "none"
    /\ timers' = [timers EXCEPT ![w] = "none"]
    /\ IF timers[w] = "open"
       THEN IF thermostats_in_area(w) = {}
            THEN /\ UNCHANGED <<tasks, target_entity_ids>>
                 /\ obs' = [op |-> "window", entity_id |-> w]
            ELSE window_call_immediate(ModeDict(HVAC_OFF), thermostats_in_area(w))
       ELSE IF \/ area_windows_open(w)
               \/ thermostats_in_area(w) = {}
               \/ IsEmpty(restore_data)
            THEN /\ UNCHANGED <<tasks, target_entity_ids>>
                 /\ obs' = [op |-> "window", entity_id |-> w]
            ELSE window_call_immediate(restore_data, thermostats_in_area(w))
    /\ UNCHANGED <<platform_state, cfg, shared_target_state, states, sensors, debouncer,
                   control_state, entity_context, event, now, startup_time,
                   schedule_task, inputs>>

-----------------------------------------------------------------------------
(* schedule.py : ScheduleHandler.schedule_listener *)

\* lines 143-170: the sticky check, the slot filter and the target update
schedule_update(caller, slot_data) ==
    /\ cfg.schedule_entity
    /\ ~(caller = "slot" /\ cfg.persist_changes
         /\ Has(shared_target_state, "last_source")
         /\ shared_target_state["last_source"] # "schedule")
    /\ ~IsEmpty(Restrict(slot_data, DOMAIN ATTR_SERVICE_MAP))

schedule_listener(caller, slot_data) ==
    LET filtered_slot == Restrict(slot_data, DOMAIN ATTR_SERVICE_MAP)
        current_target == to_dict(shared_target_state, DOMAIN filtered_slot)
        writes == schedule_update(caller, slot_data) /\ current_target # filtered_slot
    IN
    /\ FreeSlots # {}
    /\ shared_target_state' =
          IF writes THEN update_target("schedule", PyNone, filtered_slot)
          ELSE shared_target_state
    /\ schedule_task' = IF schedule_update(caller, slot_data)
                        THEN "dispatch" ELSE "none"
    /\ obs' = [op |-> "schedule", source |-> "schedule", entity_id |-> PyNone,
               kwargs |-> IF writes THEN filtered_slot ELSE EmptyDict,
               before |-> shared_target_state,
               result |-> writes /\ update_result("schedule", PyNone, filtered_slot)]
    /\ UNCHANGED <<platform_state, cfg, states, sensors, timers, target_entity_ids, debouncer,
                   tasks, control_state, entity_context, event, now,
                   startup_time>>

\* the schedule entity enters a new slot
SlotChange(slot_data) ==
    /\ Quiet
    /\ platform_state = "added"
    /\ inputs < MaxInputs
    /\ inputs' = inputs + 1
    /\ schedule_task = "none"
    /\ schedule_listener("slot", slot_data)

\* the task async_update_group_state created when all members got ready
ScheduleStartup(slot_data) ==
    /\ Quiet
    /\ schedule_task = "group"
    /\ schedule_listener("group", slot_data)
    /\ UNCHANGED inputs

\* line 171: await self.call_handler.call_immediate(), up to its first await
ScheduleDispatch ==
    /\ event = NoEvent
    /\ schedule_task = "dispatch"
    /\ FreeSlots # {}
    /\ schedule_task' = "none"
    /\ tasks' = [tasks EXCEPT ![FreeSlot] =
                    execute_calls("schedule", EmptyDict, FALSE, target_entity_ids)]
    /\ obs' = attempt_obs("schedule", EmptyDict, 0, target_entity_ids)
    /\ UNCHANGED <<platform_state, cfg, shared_target_state, states, sensors, timers,
                   target_entity_ids, debouncer, control_state, entity_context,
                   event, now, startup_time, inputs>>

-----------------------------------------------------------------------------
(* climate.py : removal of the entity *)

\* BaseServiceCallHandler.async_cancel_all on the handler h: the tasks in
\* _active_tasks are the debounced runs of that handler
cancel_all_tasks(h) ==
    [t \in TaskIds |->
        IF tasks[t].pc # "idle" /\ tasks[t].h = h /\ tasks[t].debounced
        THEN Idle ELSE tasks[t]]

\* ClimateGroup.async_will_remove_from_hass (lines 353-361): the state
\* listener is unsubscribed, climate_call_handler.async_cancel_all() is
\* awaited, then the window handler and the schedule handler are torn down
Teardown ==
    /\ Quiet
    /\ platform_state = "added"
    /\ platform_state' = "removed"
    /\ debouncer' = [debouncer EXCEPT !["group"] = NoDebouncer]
    /\ tasks' = cancel_all_tasks("group")
    /\ timers' = [w \in Windows |-> "none"]
    /\ obs' = [op |-> "teardown"]
    /\ UNCHANGED <<cfg, shared_target_state, states, sensors, target_entity_ids,
                   control_state, entity_context, event, now, startup_time,
                   schedule_task, inputs>>

-----------------------------------------------------------------------------
(* Configurations, initial states and the specifications *)

SyncModes == {"standard", "lock", "mirror"}
Modes == {HVAC_OFF, "heat"}
Temps == {2000, 2100}
Fans == {"low", "high"}

\* the options of one config entry
Config(sm, attrs, io, mt, wm, retry, se) ==
    [sync_mode |-> sm, sync_attrs |-> attrs, ignore_off_members |-> io,
     min_temp_off |-> mt, window_mode |-> wm,
     window_sensors |-> IF wm = "area_based" THEN Windows ELSE {},
     retry_attempts |-> retry, schedule_entity |-> se, persist_changes |-> FALSE]

\* a target as _restore_state leaves it: attributes without provenance
Restored(mode, temp) ==
    Merge(Merge(ModeDict(mode), [k \in {"temperature"} |-> temp]),
          Merge(FanDict("high"), RangeDict(1800, 2400)))

\* member snapshots
Thermostat(m, mode, temp, fan) ==
    Snapshot(m, mode, Merge([k \in {"temperature"} |-> temp], FanDict(fan)))
RangeThermostat(m, mode, temp, lo, hi) ==
    Snapshot(m, mode, Merge([k \in {"temperature"} |-> temp], RangeDict(lo, hi)))

\* what is the same in every initial state: nothing scheduled, nothing running
Quiescent ==
    /\ timers = [w \in Windows |-> "none"]
    /\ target_entity_ids = NoTargets
    /\ debouncer = [h \in Handlers |-> NoDebouncer]
    /\ tasks = [t \in TaskIds |-> Idle]
    /\ control_state = "close"
    /\ entity_context = [m \in Members |-> NoContext]
    /\ event = NoEvent
    /\ now = 2 * STARTUP_BLOCK_DELAY
    /\ schedule_task = "none"
    /\ platform_state = "added"
    /\ obs = [op |-> "init"]

\* one installation: its options, the restored target, the members' states
Scenario(c, target, s1, s2, started) ==
    /\ cfg = c
    /\ shared_target_state = target
    /\ states = [m \in Members |-> IF m = "m1" THEN s1 ELSE s2]
    /\ startup_time = started

Init ==
    /\ Quiescent
    /\ sensors = [w \in Windows |-> "off"]
    /\ inputs = 0
    /\ \/ Scenario(Config("lock", AttrSet, FALSE, FALSE, "off", MaxRetry, FALSE),
                   Restored("heat", 2100),
                   Thermostat("m1", "heat", 2100, "high"),
                   RangeThermostat("m2", "heat", 2100, 1800, 2400),
                   STARTUP_BLOCK_DELAY)
       \/ Scenario(Config("lock", AttrSet, TRUE, FALSE, "off", 0, FALSE),
                   Restored("heat", 2100),
                   Thermostat("m1", "heat", 2100, "high"),
                   RangeThermostat("m2", "heat", 2100, 1800, 2400),
                   STARTUP_BLOCK_DELAY)
       \/ Scenario(Config("lock", AttrSet, TRUE, TRUE, "off", 0, FALSE),
                   Restored("heat", 2100),
                   Thermostat("m1", "heat", 2000, "high"),
                   Unavailable("m2"),
                   NoneNum)
       \/ Scenario(Config("mirror", AttrSet \ {"fan_mode"}, FALSE, FALSE, "off", 0, FALSE),
                   Restored("heat", 2100),
                   Thermostat("m1", "heat", 2100, "high"),
                   RangeThermostat("m2", "heat", 2100, 1800, 2400),
                   STARTUP_BLOCK_DELAY)
       \/ Scenario(Config("mirror", AttrSet, FALSE, FALSE, "area_based", 0, FALSE),
                   Restored("heat", 2100),
                   Thermostat("m1", "heat", 2100, "high"),
                   RangeThermostat("m2", "heat", 2100, 1800, 2400),
                   STARTUP_BLOCK_DELAY)
       \/ Scenario(Config("standard", AttrSet, FALSE, FALSE, "off", 0, TRUE),
                   Restrict(Restored(HVAC_OFF, 2100), {"hvac_mode", "temperature"}),
                   Thermostat("m1", HVAC_OFF, 2100, "high"),
                   RangeThermostat("m2", HVAC_OFF, 2100, 1800, 2400),
                   NoneNum)

\* every option combination, target and member deviation, one stimulus each
InitDispatch ==
    /\ Quiescent
    /\ inputs = MaxInputs - 1
    /\ startup_time = STARTUP_BLOCK_DELAY
    /\ sensors \in {[w \in Windows |-> IF w = "w1" THEN st ELSE "off"] :
                        st \in {"off", STATE_ON}}
    /\ cfg \in {Config("lock", attrs, io, mt, "area_based", MaxRetry, TRUE) :
                    attrs \in {AttrSet, {"hvac_mode", "temperature", "target_temp_low"}},
                    io \in BOOLEAN, mt \in BOOLEAN}
    /\ shared_target_state \in
            {Restored(mode, 2100) : mode \in Modes}
            \cup {Restrict(Restored(mode, 2100), AttrSet \ RangeAttrs) : mode \in Modes}
    /\ states \in
            {[m \in Members |-> IF m = "m1" THEN s1 ELSE s2] :
                s1 \in {Thermostat("m1", "heat", 2105, "high"),
                        Thermostat("m1", "heat", 2000, "low"),
                        Thermostat("m1", HVAC_OFF, 2000, "high")},
                s2 \in {RangeThermostat("m2", "heat", 2100, 1800, 2400),
                        RangeThermostat("m2", "heat", 2100, 1900, 2300),
                        RangeThermostat("m2", HVAC_OFF, 2100, 1900, 2400),
                        Unavailable("m2")}}

ReportAttrs == {"hvac_mode", "temperature", "fan_mode", "target_temp_low"}
ReportVals(a) ==
    CASE a = "hvac_mode" -> Modes
      [] a = "temperature" -> {2000, 2105}
      [] a = "fan_mode" -> Fans
      [] OTHER -> {1900}

Slots == {Merge(ModeDict("heat"), [k \in {"temperature"} |-> 2000])}

\* the group's own steps (listeners, timers, the dispatch coroutines) and
\* the members carrying out the calls
Dispatching ==
    \/ Listener
    \/ \E h \in {"group", "sync_mode"} : DebounceFire(h)
    \/ \E t \in TaskIds, ok \in BOOLEAN : CallReturn(t, ok)
    \/ \E t \in TaskIds : RetryWake(t)
    \/ \E w \in Windows : WindowTimerFire(w)
    \/ ScheduleDispatch
    \/ \E t \in TaskIds, m \in Members : MemberApply(t, m)

\* the stimuli: user commands, member reports, window sensors, the schedule
Stimuli ==
    \/ \E hvac_mode \in Modes : async_set_hvac_mode(hvac_mode)
    \/ \E kwargs \in TempDicts(Temps) \cup {RangeDict(1900, 2400)} :
            async_set_temperature(kwargs)
    \/ async_set_humidity(5000)
    \/ \E fan_mode \in Fans : async_set_fan_mode(fan_mode)
    \/ \E m \in Members, a \in ReportAttrs, own \in BOOLEAN :
            \E v \in ReportVals(a) : MemberReport(m, a, v, own)
    \/ \E w \in Windows, st \in {STATE_ON, "off"} : SensorEvent(w, st)
    \/ \E slot_data \in Slots : SlotChange(slot_data)

Next ==
    \/ Dispatching
    \/ Stimuli
    \/ \E slot_data \in Slots : ScheduleStartup(slot_data)
    \/ Tick

\* one stimulus and the dispatching it sets off, after startup
NextDispatch ==
    \/ Dispatching
    \/ Stimuli

Spec == Init /\ [][Next]_vars

SpecDispatch == InitDispatch /\ [][NextDispatch]_vars

-----------------------------------------------------------------------------
(* Window control on its own: one sensor just opened, nobody commands *)

\* the write proposals handed to the window-control gatekeeper
Proposals ==
    {ModeDict(HVAC_OFF), ModeDict("heat"),
     Merge(ModeDict(HVAC_OFF), [k \in {"temperature"} |-> 2000])}

\* window_control_state_manager.update(entity_id, **kwargs): the manager
\* the group builds for the window handler (climate.py line 235,
\* window_control.py line 106)
WindowControlUpdate(entity_id, kwargs) ==
    /\ Quiet
    /\ inputs < MaxInputs
    /\ inputs' = inputs + 1
    /\ shared_target_state' = update_target("window_control", entity_id, kwargs)
    /\ obs' = [op |-> "update", source |-> "window_control",
               entity_id |-> entity_id, kwargs |-> kwargs,
               before |-> shared_target_state,
               result |-> update_result("window_control", entity_id, kwargs),
               blocking |-> blocking_mode]
    /\ UNCHANGED <<platform_state, cfg, states, sensors, timers, target_entity_ids, debouncer,
                   tasks, control_state, entity_context, event, now,
                   startup_time, schedule_task>>

\* the target every window scenario starts from
WindowTarget == Restored("heat", 2100)

\* w1 has just reported open: its open timer runs, nothing else is going on
InitWindow ==
    /\ target_entity_ids = NoTargets
    /\ debouncer = [h \in Handlers |-> NoDebouncer]
    /\ tasks = [t \in TaskIds |-> Idle]
    /\ control_state = "close"
    /\ entity_context = [m \in Members |-> NoContext]
    /\ event = NoEvent
    /\ now = 2 * STARTUP_BLOCK_DELAY
    /\ schedule_task = "none"
    /\ sensors = [w \in Windows |-> IF w = "w1" THEN STATE_ON ELSE "off"]
    /\ timers = [w \in Windows |-> IF w = "w1" THEN "open" ELSE "none"]
    /\ inputs = 0
    /\ platform_state = "added"
    /\ obs = [op |-> "sensor", entity_id |-> "w1"]
    /\ \/ Scenario(Config("mirror", AttrSet \ {"fan_mode"}, FALSE, FALSE,
                          "area_based", 0, FALSE),
                   WindowTarget,
                   Thermostat("m1", "heat", 2100, "high"),
                   RangeThermostat("m2", "heat", 2100, 1800, 2400),
                   STARTUP_BLOCK_DELAY)
       \/ Scenario(Config("lock", AttrSet, FALSE, FALSE, "area_based",
                          MaxRetry, FALSE),
                   WindowTarget,
                   Thermostat("m1", "heat", 2100, "high"),
                   RangeThermostat("m2", "heat", 2100, 1800, 2400),
                   STARTUP_BLOCK_DELAY)
       \/ Scenario(Config("lock", AttrSet, TRUE, FALSE, "area_based", 0, FALSE),
                   WindowTarget,
                   Thermostat("m1", "heat", 2100, "high"),
                   Unavailable("m2"),
                   STARTUP_BLOCK_DELAY)

\* sensors, timers and dispatching; the only member reports are fan_mode
\* changes, an attribute no scenario mirrors into the target
NextWindow ==
    \/ Listener
    \/ DebounceFire("sync_mode")
    \/ \E t \in TaskIds, ok \in BOOLEAN : CallReturn(t, ok)
    \/ \E t \in TaskIds : RetryWake(t)
    \/ \E w \in Windows : WindowTimerFire(w)
    \/ \E t \in TaskIds, m \in Members : MemberApply(t, m)
    \/ \E w \in Windows, st \in {STATE_ON, "off", STATE_UNAVAILABLE} :
            SensorEvent(w, st)
    \/ \E m \in Members, v \in Fans, own \in BOOLEAN :
            MemberReport(m, "fan_mode", v, own)
    \/ \E entity_id \in {PyNone, "m1"}, kwargs \in Proposals :
            WindowControlUpdate(entity_id, kwargs)

SpecWindow == InitWindow /\ [][NextWindow]_vars

-----------------------------------------------------------------------------
(* Enforcement and startup: members that deviate, commands that fail *)

\* member setpoints 0.05, 0.1 and 0.25 away from a target of 21.0
NearTemps == {2095, 2090, 2075}
\* ranges at, below and above a target range of 18.0 to 24.0
NearRanges == {<<1800, 2400>>, <<1790, 2400>>, <<1800, 2425>>}

\* an enforcement request waits for its debounce timer
SyncPending ==
    [h \in Handlers |->
        IF h = "sync_mode" THEN call_debounced(NoDebouncer, EmptyDict)
        ELSE NoDebouncer]

InitSync ==
    /\ timers = [w \in Windows |-> "none"]
    /\ target_entity_ids = NoTargets
    /\ tasks = [t \in TaskIds |-> Idle]
    /\ control_state = "close"
    /\ entity_context = [m \in Members |-> NoContext]
    /\ event = NoEvent
    /\ now = 2 * STARTUP_BLOCK_DELAY
    /\ schedule_task = "none"
    /\ platform_state = "added"
    /\ obs = [op |-> "init"]
    /\ sensors = [w \in Windows |-> "off"]
    /\ inputs = 0
    /\ \/ \E sm \in {"lock", "mirror"}, mode1 \in Modes, mode2 \in Modes :
            \* nothing restored: the target is still TargetState(); m2 is a
            \* range-only thermostat
            Scenario(Config(sm, AttrSet, FALSE, FALSE, "off", 0, FALSE),
                     EmptyDict,
                     Thermostat("m1", mode1, 2100, "high"),
                     Snapshot("m2", mode2, RangeDict(1800, 2400)),
                     NoneNum)
       \/ \E retry \in {0, MaxRetry}, range \in NearRanges,
             s1 \in {Thermostat("m1", "heat", temp, "high") : temp \in NearTemps}
                    \cup {RangeThermostat("m1", "heat", 2100, 1790, 2400)} :
            \* a restored target the members deviate from
            Scenario(Config("lock", AttrSet, FALSE, FALSE, "off", retry, FALSE),
                     Restored("heat", 2100),
                     s1,
                     RangeThermostat("m2", "heat", 2100, range[1], range[2]),
                     STARTUP_BLOCK_DELAY)
    \* either nothing is pending, or an enforcement request made for a
    \* deviating member waits for its debounce timer
    /\ debouncer \in {[h \in Handlers |-> NoDebouncer], SyncPending}
    /\ debouncer = SyncPending =>
            /\ cfg.retry_attempts = MaxRetry
            /\ ~IsEmpty(shared_target_state)
            /\ states["m1"].attributes["temperature"] = 2075

NextSync ==
    \/ Listener
    \/ \E h \in {"group", "sync_mode"} : DebounceFire(h)
    \/ \E t \in TaskIds, ok \in BOOLEAN : CallReturn(t, ok)
    \/ \E t \in TaskIds : RetryWake(t)
    \/ \E t \in TaskIds, m \in Members : MemberApply(t, m)
    \/ \E kwargs \in TempDicts(Temps) : async_set_temperature(kwargs)
    \/ \E m \in Members, own \in BOOLEAN :
            \/ \E v \in {2100} \cup NearTemps : MemberReport(m, "temperature", v, own)
            \/ \E v \in Fans : MemberReport(m, "fan_mode", v, own)

SpecSync == InitSync /\ [][NextSync]_vars

-----------------------------------------------------------------------------
(* Removal: the window scenarios with user commands and a teardown *)

NextTeardown ==
    \/ Listener
    \/ \E h \in {"group", "sync_mode"} : DebounceFire(h)
    \/ \E t \in TaskIds, ok \in BOOLEAN : CallReturn(t, ok)
    \/ \E t \in TaskIds : RetryWake(t)
    \/ \E w \in Windows : WindowTimerFire(w)
    \/ \E t \in TaskIds, m \in Members : MemberApply(t, m)
    \/ \E w \in Windows, st \in {STATE_ON, "off"} : SensorEvent(w, st)
    \/ \E m \in Members, v \in Fans, own \in BOOLEAN :
            MemberReport(m, "fan_mode", v, own)
    \/ \E kwargs \in TempDicts(Temps) : async_set_temperature(kwargs)
    \/ Teardown

SpecTeardown == InitWindow /\ [][NextTeardown]_vars

-----------------------------------------------------------------------------
(* Convergence in Lock mode: members change on their own, commands succeed *)

InitConverge ==
    /\ Quiescent
    /\ sensors = [w \in Windows |-> "off"]
    /\ inputs = 0
    /\ \E retry \in {0, MaxRetry} :
            Scenario(Config("lock", AttrSet, FALSE, FALSE, "off", retry, FALSE),
                     Restored("heat", 2100),
                     Thermostat("m1", "heat", 2100, "high"),
                     RangeThermostat("m2", "heat", 2100, 1800, 2400),
                     STARTUP_BLOCK_DELAY)

\* the steps the group and the members take by themselves; every service
\* call succeeds
Enforcing ==
    \/ Listener
    \/ DebounceFire("sync_mode")
    \/ \E t \in TaskIds : CallReturn(t, TRUE)
    \/ \E t \in TaskIds : RetryWake(t)
    \/ \E t \in TaskIds, m \in Members : MemberApply(t, m)

NextConverge ==
    \/ Enforcing
    \/ \E m \in Members :
            \/ \E v \in Modes : MemberReport(m, "hvac_mode", v, FALSE)
            \/ \E v \in Temps : MemberReport(m, "temperature", v, FALSE)
            \/ \E v \in Fans : MemberReport(m, "fan_mode", v, FALSE)

\* the event loop runs whatever is ready: listeners, timers, coroutines
SpecConverge == InitConverge /\ [][NextConverge]_vars /\ WF_vars(Enforcing)

-----------------------------------------------------------------------------
(* Classification: member events with and without a causal context *)

InitClassify ==
    /\ Quiescent
    /\ sensors = [w \in Windows |-> "off"]
    /\ inputs = 0
    /\ \/ \E sm \in SyncModes, mode \in Modes, started \in {NoneNum, STARTUP_BLOCK_DELAY} :
            Scenario(Config(sm, AttrSet, FALSE, FALSE, "off", 0, FALSE),
                     Restored(mode, 2100),
                     Thermostat("m1", mode, 2100, "high"),
                     RangeThermostat("m2", mode, 2100, 1800, 2400),
                     started)
       \/ \E sm \in SyncModes, mode \in Modes,
             s2 \in {Unavailable("m2"), RangeThermostat("m2", "heat", 2100, 1800, 2400)} :
            \* nothing restored, and m2 possibly not yet available
            Scenario(Config(sm, AttrSet, FALSE, FALSE, "off", 0, FALSE),
                     EmptyDict,
                     Thermostat("m1", mode, 2100, "high"),
                     s2,
                     NoneNum)

\* low setpoints at 0.05 and at 0.1 from the restored 18.0
NearLows == {1795, 1790}

NextClassify ==
    \/ Listener
    \/ DebounceFire("sync_mode")
    \/ \E t \in TaskIds, ok \in BOOLEAN : CallReturn(t, ok)
    \/ \E t \in TaskIds, m \in Members : MemberApply(t, m)
    \/ \E m \in Members, own \in BOOLEAN :
            \/ \E v \in Temps : MemberReport(m, "temperature", v, own)
            \/ \E v \in Fans : MemberReport(m, "fan_mode", v, own)
            \/ \E v \in NearLows : MemberReport(m, "target_temp_low", v, own)
    \/ \E m \in Members :
            \/ \E v \in Modes : BareReport(m, "hvac_mode", v)
            \/ \E v \in Temps : BareReport(m, "temperature", v)

SpecClassify == InitClassify /\ [][NextClassify]_vars

-----------------------------------------------------------------------------
(* state.py : TargetState as a value, update and to_dict on bounded inputs *)

\* provenance fields of a stored value
Stamp(source, entity_id) ==
    [k \in MetaFields |->
        CASE k = "last_source" -> source
          [] k = "last_entity" -> entity_id
          [] OTHER -> 0]

TargetValues ==
    {EmptyDict,
     Restored("heat", 2100),
     Merge(Restored(HVAC_OFF, 2000), Stamp("group", GroupId)),
     Merge(ModeDict("heat"), Stamp("sync_mode", "m1"))}

\* a keyword argument that is absent or takes one of vals
Opt(k, vals) == {EmptyDict} \cup {[x \in {k} |-> v] : v \in vals}

\* keyword arguments of update: fields given a value, fields given None,
\* provenance, and a name that is no field of the dataclass
Partials ==
    {Merge(Merge(Merge(a, b), Merge(c, d)), e) :
        a \in Opt("hvac_mode", {HVAC_OFF, PyNone}),
        b \in Opt("temperature", {2000, NoneNum}),
        c \in Opt("fan_mode", {"low"}),
        d \in Opt("last_entity", {"m2"}),
        e \in Opt("entity_id", {"m1"})}

\* attribute lists of to_dict; TargetFields stands for attributes=None
AttributeLists ==
    SUBSET {"hvac_mode", "temperature", "humidity", "last_entity", "entity_id"}
        \cup {TargetFields}

InitTargetState ==
    /\ Quiescent
    /\ sensors = [w \in Windows |-> "off"]
    /\ inputs = 0
    /\ \E target \in TargetValues :
            Scenario(Config("standard", AttrSet, FALSE, FALSE, "off", 0, FALSE),
                     target,
                     Thermostat("m1", "heat", 2100, "high"),
                     RangeThermostat("m2", "heat", 2100, 1800, 2400),
                     STARTUP_BLOCK_DELAY)

\* target_state = target_state.update(**kwargs)
UpdateValue(kwargs) ==
    /\ shared_target_state' = TargetState_update(shared_target_state, kwargs)
    /\ obs' = [op |-> "replace", self |-> shared_target_state, kwargs |-> kwargs]
    /\ UNCHANGED <<platform_state, cfg, states, sensors, timers, target_entity_ids,
                   debouncer, tasks, control_state, entity_context, event, now,
                   startup_time, schedule_task, inputs>>

\* target_state.to_dict(attributes)
ProjectValue(attributes) ==
    /\ obs' = [op |-> "to_dict", self |-> shared_target_state,
               attributes |-> attributes,
               result |-> to_dict(shared_target_state, attributes)]
    /\ UNCHANGED <<platform_state, cfg, shared_target_state, states, sensors, timers,
                   target_entity_ids, debouncer, tasks, control_state,
                   entity_context, event, now, startup_time, schedule_task,
                   inputs>>

NextTargetState ==
    \/ \E kwargs \in Partials : UpdateValue(kwargs)
    \/ \E attributes \in AttributeLists : ProjectValue(attributes)

SpecTargetState == InitTargetState /\ [][NextTargetState]_vars

-----------------------------------------------------------------------------
(* The user changes the group's temperature repeatedly; every call succeeds *)

InitSupersede ==
    /\ Quiescent
    /\ sensors = [w \in Windows |-> "off"]
    /\ inputs = 0
    /\ \E sm \in {"standard", "lock"}, retry \in {0, MaxRetry} :
            Scenario(Config(sm, AttrSet, FALSE, FALSE, "off", retry, FALSE),
                     Restored("heat", 2100),
                     Thermostat("m1", "heat", 2100, "high"),
                     RangeThermostat("m2", "heat", 2100, 1800, 2400),
                     STARTUP_BLOCK_DELAY)

NextSupersede ==
    \/ \E kwargs \in TempDicts(Temps) : async_set_temperature(kwargs)
    \/ Listener
    \/ \E h \in {"group", "sync_mode"} : DebounceFire(h)
    \/ \E t \in TaskIds : CallReturn(t, TRUE)
    \/ \E t \in TaskIds : RetryWake(t)
    \/ \E t \in TaskIds, m \in Members : MemberApply(t, m)

SpecSupersede == InitSupersede /\ [][NextSupersede]_vars

-----------------------------------------------------------------------------
(* Enforcement with retries while a window opens *)

InitSuppress ==
    /\ Quiescent
    /\ sensors = [w \in Windows |-> "off"]
    /\ inputs = 0
    /\ Scenario(Config("lock", AttrSet, FALSE, FALSE, "area_based",
                        MaxRetry, FALSE),
                WindowTarget,
                Thermostat("m1", "heat", 2100, "high"),
                RangeThermostat("m2", "heat", 2100, 1800, 2400),
                STARTUP_BLOCK_DELAY)

NextSuppress ==
    \/ Listener
    \/ DebounceFire("sync_mode")
    \/ \E t \in TaskIds, ok \in BOOLEAN : CallReturn(t, ok)
    \/ \E t \in TaskIds : RetryWake(t)
    \/ \E w \in Windows : WindowTimerFire(w)
    \/ \E t \in TaskIds, m \in Members : MemberApply(t, m)
    \/ \E w \in Windows, st \in {STATE_ON, "off"} : SensorEvent(w, st)
    \/ \E m \in Members, v \in Temps : MemberReport(m, "temperature", v, FALSE)

SpecSuppress == InitSuppress /\ [][NextSuppress]_vars

-----------------------------------------------------------------------------
(* Windows opening and closing; every call succeeds, no member acts alone *)

NextShortOpen ==
    \/ Listener
    \/ \E t \in TaskIds : CallReturn(t, TRUE)
    \/ \E t \in TaskIds : RetryWake(t)
    \/ \E w \in Windows : WindowTimerFire(w)
    \/ \E t \in TaskIds, m \in Members : MemberApply(t, m)
    \/ \E w \in Windows, st \in {STATE_ON, "off"} : SensorEvent(w, st)

SpecShortOpen == InitWindow /\ [][NextShortOpen]_vars

-----------------------------------------------------------------------------
(* Properties *)

target == shared_target_state

\* the step just taken was a dispatch attempt of handler h
Attempted(h) == obs.op = "attempt" /\ obs.h = h

\* member m reports a value for attribute a
Reports(m, a) == a = "hvac_mode" \/ Has(states[m].attributes, a)

\* member m can take the target value of a: it has the attribute and, for a
\* mode-like attribute, lists the value among its supported modes
Supports(m, a) ==
    IF a \in DOMAIN MODE_MODES_MAP
    THEN /\ Has(states[m].attributes, MODE_MODES_MAP[a])
         /\ target[a] \in states[m].attributes[MODE_MODES_MAP[a]]
    ELSE Has(states[m].attributes, a)

\* the value m reports for a equals the target: exactly for discrete
\* attributes, within the tolerance for numeric ones
Equals(m, a) ==
    LET v == member_val(states[m], a) IN
    IF a \in SetpointAttrs
    THEN v = target[a] \/ (v # NoneNum /\ Abs(v - target[a]) < FLOAT_TOLERANCE)
    ELSE v = target[a]

AllSynced ==
    \A m \in Members, a \in AttrSet \cap DOMAIN target : Equals(m, a)

C2_DirectSkipsSyncedMembers ==
    Attempted("group") =>
        \A i \in 1..Len(obs.calls) : \A m \in obs.calls[i].entity_ids :
            \E a \in DOMAIN obs.calls[i].kwargs :
                member_val(states[m], a) # obs.calls[i].kwargs[a]

\* the commands of the attempt just made that carry a setpoint other than
\* the minimum-temperature injection
WakeUpCalls ==
    {i \in 1..Len(obs.calls) :
        \E a \in DOMAIN obs.calls[i].kwargs \cap SetpointAttrs :
            ~(/\ a = "temperature"
              /\ cfg.min_temp_off
              /\ obs.calls[i].kwargs[a] = attr_min_temp)}

TargetOff == Has(target, "hvac_mode") /\ target["hvac_mode"] = HVAC_OFF

AttemptMap == IF IsEmpty(obs.data) THEN target ELSE obs.data

RangeCalls ==
    {i \in 1..Len(obs.calls) : DOMAIN obs.calls[i].kwargs \cap RangeAttrs # {}}

\* never one range setpoint without the other, never in separate commands
RangeTogether ==
    /\ \A i \in RangeCalls : RangeAttrs \subseteq DOMAIN obs.calls[i].kwargs
    /\ Cardinality(RangeCalls) <= 1

\* both range setpoints of member m differ from the target
BothDiffer(m) ==
    /\ RangeAttrs \subseteq DOMAIN target
    /\ \A a \in RangeAttrs : Reports(m, a) /\ ~Equals(m, a)

SkippedAsOff(m) ==
    /\ cfg.ignore_off_members
    /\ states[m].state = HVAC_OFF
    /\ \E e \in Members : states[e].state \notin {HVAC_OFF, STATE_UNAVAILABLE, STATE_UNKNOWN}

OwnEchoEvent ==
    /\ obs.op = "event"
    /\ cfg.sync_mode \in {"lock", "mirror"}
    /\ own_echo(obs.ctx)

\* the attributes the batch's command ordered
Ordered == DOMAIN obs.ctx.service_data \cap AttrSet

\* the event reports the ordered value for every ordered attribute
ReportsOrdered ==
    \A a \in Ordered :
        member_val(states[obs.entity_id], a) = obs.ctx.service_data[a]

\* attribute a of TargetState is as it was before the step
Kept(a) ==
    /\ Has(target, a) <=> Has(obs.before, a)
    /\ Has(target, a) => target[a] = obs.before[a]

\* C5 as stated: an own-batch reaction that reports the ordered value for
\* every ordered attribute causes no TargetState write and schedules no
\* dispatch.
C5_CleanEchoNoWrite ==
    (OwnEchoEvent /\ ReportsOrdered) =>
        /\ target = obs.before
        /\ ~obs.scheduled

\* C5 amended: an own-batch reaction whose deviations from TargetState are
\* all ordered attributes reported with the ordered value causes no
\* TargetState write; no own-batch reaction schedules a dispatch.
C5_CleanEcho ==
    OwnEchoEvent =>
        /\ (ReportsOrdered /\ DOMAIN obs.change_dict \subseteq Ordered)
              => target = obs.before
        /\ ~obs.scheduled

\* C5 witness: a clean echo whose reported value deviates from TargetState
\* (the ordered value is not the target value) and is left alone
C5_Witness ==
    /\ OwnEchoEvent
    /\ obs.branch = "echo"
    /\ ReportsOrdered
    /\ obs.change_dict # EmptyDict
    /\ DOMAIN obs.change_dict \subseteq Ordered

\* the side effects of the event: deviations outside the ordered payload
SideEffects == DOMAIN obs.change_dict \ DOMAIN obs.ctx.service_data

\* C6 as stated: a side effect is written into TargetState only if the
\* reporting member is the batch master; reported by any other member, or
\* for a batch without a member as master, it leaves TargetState unchanged.
C6_SideEffectOnlyFromMaster ==
    (OwnEchoEvent /\ obs.ctx.master # obs.entity_id) => target = obs.before

\* C6 amended: a side effect is written only if the reporting member is the
\* batch master or the batch identifier names no master at all, and then
\* (the sync gatekeeper accepting) every side effect is written with the
\* reported value; reported by a member other than a named master, the
\* group itself included, it leaves TargetState unchanged.
C6_SideEffectMasterRule ==
    OwnEchoEvent =>
        /\ (obs.ctx.master # "" /\ obs.ctx.master # obs.entity_id)
              => target = obs.before
        /\ \A a \in AttrSet :
              ~Kept(a) => a \in SideEffects /\ target[a] = obs.change_dict[a]
        /\ (/\ obs.branch = "echo"
            /\ obs.ctx.master \in {"", obs.entity_id}
            /\ obs.result)
              => \A a \in SideEffects : target[a] = obs.change_dict[a]

\* C6 witness: the batch master reports a side effect, which is written
C6_Witness ==
    /\ OwnEchoEvent
    /\ obs.ctx.master = obs.entity_id
    /\ SideEffects # {}
    /\ target # obs.before

\* C7: in an own-batch reaction, an attribute of the ordered payload that
\* is reported with another value than ordered never changes TargetState
\* and never schedules a dispatch, in Lock and in Mirror mode.
C7_DirtyEchoIgnored ==
    OwnEchoEvent =>
        /\ \A a \in Ordered : Kept(a)
        /\ ~obs.scheduled

\* C7 witness: an own-batch reaction reporting an ordered attribute with a
\* value that is neither the ordered one nor the target's
C7_Witness ==
    /\ OwnEchoEvent
    /\ obs.branch = "echo"
    /\ \E a \in Ordered \cap DOMAIN obs.change_dict :
          obs.change_dict[a] # obs.ctx.service_data[a]

\* some member other than m is available and not off
OthersActive(m) ==
    \E e \in Members \ {m} :
        states[e].state \notin {HVAC_OFF, STATE_UNAVAILABLE, STATE_UNKNOWN}

\* the step just taken proposed hvac_mode = off to the sync gatekeeper on
\* behalf of the reporting member, with ignore-off-members enabled
OffProposal ==
    /\ obs.op = "event"
    /\ cfg.ignore_off_members
    /\ Has(obs.kwargs, "hvac_mode")
    /\ obs.kwargs["hvac_mode"] = HVAC_OFF

\* C8: with ignore-off-members enabled, an off write proposed through the
\* sync gatekeeper for member A is rejected, TargetState unchanged, while
\* another member is available and not off; it is accepted when every other
\* member is off or unavailable, and TargetState.hvac_mode is then off.
C8_LastManStanding ==
    OffProposal =>
        IF OthersActive(obs.entity_id)
        THEN ~obs.result /\ target = obs.before
        ELSE obs.result /\ TargetOff

\* C8 witness: the last active member reports off after the other member
\* went off, and the group target goes off
C8_Witness ==
    /\ OffProposal
    /\ obs.result
    /\ obs.before["hvac_mode"] # HVAC_OFF
    /\ \A e \in Members \ {obs.entity_id} : states[e].state = HVAC_OFF

\* C9: while blocking mode is active the direct-command gatekeeper rejects
\* a write that does not change hvac_mode and accepts a request to change
\* hvac_mode, after which TargetState.hvac_mode is the requested mode.
C9_ModeChangePassesBlocking ==
    (obs.op = "update" /\ obs.source = "group" /\ obs.blocking) =>
        IF Has(obs.kwargs, "hvac_mode")
        THEN obs.result /\ target["hvac_mode"] = obs.kwargs["hvac_mode"]
        ELSE ~obs.result /\ target = obs.before

\* the step just taken proposed a write to a gatekeeper
Proposed == obs.op \in {"update", "event", "schedule"} /\ ~IsEmpty(obs.kwargs)

\* TargetState after an accepted proposal
Accepted ==
    [k \in DOMAIN obs.before \cup (DOMAIN obs.kwargs \cap AttrSet) \cup MetaFields |->
        CASE k = "last_source" -> obs.source
          [] k = "last_entity" ->
                (IF obs.entity_id # PyNone THEN obs.entity_id ELSE GroupId)
          [] k = "last_timestamp" -> now
          [] OTHER -> IF Has(obs.kwargs, k) THEN obs.kwargs[k] ELSE obs.before[k]]

\* C10: a rejected proposal returns false and leaves TargetState, attributes
\* and provenance, as it was; an accepted one returns true, replaces exactly
\* the proposed attributes and stamps the gatekeeper's name, the originating
\* member (the group id when there is none) and the time.
C10_GatekeeperOutcome ==
    Proposed => IF obs.result THEN target = Accepted ELSE target = obs.before

\* C10 witness: the sync gatekeeper accepts a member's proposal that changes
\* the target and stamps the member
C10_Witness ==
    /\ Proposed
    /\ obs.op = "event"
    /\ obs.result
    /\ target["last_entity"] = obs.entity_id
    /\ \E a \in DOMAIN obs.kwargs : ~Kept(a)

-----------------------------------------------------------------------------
(* Window control *)

\* a call of the window-control gatekeeper has just returned
WindowUpdate == obs.op = "update" /\ obs.source = "window_control"

\* C11: the window-control gatekeeper is read-only. In every reachable
\* state it rejects every proposal from every entity, the TargetState such
\* a call would leave is the TargetState it found, and a call that was made
\* returned false and left TargetState exactly as it was before the call.
C11_WindowGatekeeperReadOnly ==
    /\ \A entity_id \in Members \cup {PyNone}, kwargs \in Proposals :
            /\ ~update_result("window_control", entity_id, kwargs)
            /\ update_target("window_control", entity_id, kwargs) = shared_target_state
    /\ WindowUpdate => ~obs.result /\ shared_target_state = obs.before

\* a window-control write proposing a value the target does not hold was
\* made while nothing was blocking
C11_Witness ==
    /\ WindowUpdate
    /\ ~obs.blocking
    /\ \E a \in DOMAIN obs.kwargs : obs.before[a] # obs.kwargs[a]
    /\ shared_target_state = obs.before

\* an attempt of the window-control dispatcher that issues the off command
\* of _handle_window_opened: its attributes are {"hvac_mode": off} alone
\* (a restore carries the target's temperature as well)
OffCommand ==
    /\ obs.op = "attempt"
    /\ obs.h = "window_control"
    /\ Restrict(obs.data, AttrSet) = ModeDict(HVAC_OFF)
    /\ obs.calls # << >>

\* the first attempt of a restore by _handle_window_closed
RestoreCommand ==
    /\ obs.op = "attempt"
    /\ obs.h = "window_control"
    /\ obs.attempt = 0
    /\ Has(obs.data, "temperature")
    /\ obs.calls # << >>

\* C12: suppression never mutates the target. With no user or schedule
\* command and no member changing a mirrored attribute on its own, the
\* TargetState attribute values stay those from before the window opened,
\* through the forced-off, the member events, the close and the restore.
C12_SuppressionKeepsTarget ==
    Restrict(shared_target_state, AttrSet) = Restrict(WindowTarget, AttrSet)

\* the open timer of window w expires in this step
OpenTimerFires(w) == timers[w] = "open" /\ timers'[w] = "none"

\* C13: a short open never forces off. The first attempt of an off command
\* is issued only in the step in which the open timer of some window
\* expires, addressed to the members of that window's area, and that
\* window has not reported closed since it reported open; a sensor that
\* reports closed while its open timer runs has the timer replaced by a
\* close timer, so its open never issues an off command.
C13_ShortOpenNoOff ==
    /\ [][(obs' # obs /\ OffCommand' /\ obs'.attempt = 0) =>
            \E w \in Windows :
                /\ OpenTimerFires(w)
                /\ sensors[w] # "off"
                /\ obs'.tids = thermostats_in_area(w)]_vars
    /\ [][\A w \in Windows :
            (timers[w] = "open" /\ sensors'[w] = "off") => timers'[w] # "open"]_vars

\* w1 reported closed while its open timer was running; the close timer
\* has expired since and issued a restore, and no member has carried out
\* any command
C13_Witness ==
    /\ sensors["w1"] = "off"
    /\ timers["w1"] = "none"
    /\ RestoreCommand
    /\ \A m \in Members : entity_context[m] = NoContext
    /\ \A m \in Members : states[m].state \in {"heat", STATE_UNAVAILABLE}

\* the members the attempt in obs addresses
Addressed == UNION {obs.calls[i].entity_ids : i \in DOMAIN obs.calls}

\* C14: a held-open window forces off exactly once, whatever the retry
\* count: no later attempt of the dispatch repeats the off command to
\* members that are all off already, and no off command addresses a
\* member outside area a1, the area of both sensors.
C14_OffCommandOnce ==
    OffCommand =>
        /\ Addressed \subseteq thermostats_in_area("w1")
        /\ obs.attempt > 0 => \E m \in Addressed : states[m].state # HVAC_OFF

\* some monitored sensor assigned to the area of window w reports open
ZoneOpen(w) ==
    \E sensor_id \in cfg.window_sensors :
        AreaOf[sensor_id] = AreaOf[w] /\ is_open(sensor_id)

\* the zones (named by a window each) the attempt in obs addresses
AddressedZones == {w \in Windows : Addressed \cap thermostats_in_area(w) # {}}

\* any attempt of a restore, the first one or a retry
RestoreIssued ==
    /\ obs.op = "attempt"
    /\ obs.h = "window_control"
    /\ obs.calls # << >>
    /\ ~OffCommand

\* the original reading of C15: no attempt of a restore, first or later,
\* addresses a zone one of whose sensors reports open at that moment
C15_NoRestoreWhileOpen ==
    RestoreIssued => \A w \in AddressedZones : ~ZoneOpen(w)

\* C15: sibling hold. A restore is started (first attempt) only when no
\* monitored sensor of the addressed zone reports open, and a close timer
\* that expires while a sensor of its zone reports open starts nothing.
C15_SiblingHold ==
    /\ [](RestoreCommand => \A w \in AddressedZones : ~ZoneOpen(w))
    /\ [][\A w \in Windows :
            (timers[w] = "close" /\ timers'[w] = "none" /\ ZoneOpen(w))
                => tasks' = tasks]_vars

\* the close timer of w1 has expired while its sibling w2 reports open,
\* and no dispatch is running: the zone stays suppressed
C15_Witness ==
    /\ obs = [op |-> "window", entity_id |-> "w1"]
    /\ sensors["w1"] = "off"
    /\ is_open("w2")
    /\ states["m1"].state = HVAC_OFF
    /\ \A t \in TaskIds : tasks[t].pc = "idle"

-----------------------------------------------------------------------------
(* Startup, tolerance, debounce and retry *)

\* the members with a usable state
ValidMembers ==
    {m \in Members : states[m].state \notin {STATE_UNAVAILABLE, STATE_UNKNOWN}}

\* the listener has just seeded an empty target
ColdStarted ==
    /\ obs.op = "event"
    /\ IsEmpty(obs.before)
    /\ ~IsEmpty(shared_target_state)

\* C16: cold-start seeding. When the listener finds TargetState empty, it
\* seeds it with the attribute values of the aggregated group state, and
\* the provenance source of the seeded TargetState is "restore".
C16_ColdStartRestore ==
    ColdStarted =>
        /\ Restrict(shared_target_state, AttrSet) \in current_group_states(ValidMembers)
        /\ shared_target_state["last_source"] = "restore"

NumericAttrs == {"temperature", "target_temp_low", "target_temp_high", "humidity"}

\* the first attempt of an enforcement dispatch that was not blocked
SyncAttempt ==
    /\ obs.op = "attempt"
    /\ obs.h = "sync_mode"
    /\ obs.attempt = 0
    /\ ~obs.blocked

\* member m reports attribute a at least the tolerance away from the target
Deviates(m, a) ==
    /\ Has(shared_target_state, a)
    /\ Has(states[m].attributes, a)
    /\ Abs(states[m].attributes[a] - shared_target_state[a]) >= FLOAT_TOLERANCE

\* the attempt in obs sends member m a command carrying attribute a
Commanded(m, a) ==
    \E i \in DOMAIN obs.calls :
        a \in DOMAIN obs.calls[i].kwargs /\ m \in obs.calls[i].entity_ids

\* attribute a of member m is one the enforcement dispatch looks at
Enforced(m, a) ==
    /\ Has(shared_target_state, a)
    /\ Has(states[m].attributes, a)
    /\ filter_allows("sync_mode", a)
    /\ ~TargetOff
    /\ ~SkippedAsOff(m)

\* C17: numeric tolerance. In the first attempt of an enforcement dispatch
\* a member is sent its temperature (humidity) iff its value is at least
\* 0.1 away from the target, and is sent the low/high pair iff its low or
\* its high value is at least 0.1 away from the target.
C17_ToleranceCommand ==
    SyncAttempt =>
        \A m \in ValidMembers :
            /\ \A a \in NumericAttrs \ RangeAttrs :
                    Enforced(m, a) => (Commanded(m, a) <=> Deviates(m, a))
            /\ (\A a \in RangeAttrs : Enforced(m, a)) =>
                    (Commanded(m, "target_temp_low") <=>
                        \E a \in RangeAttrs : Deviates(m, a))

Debounced == {"group", "sync_mode"}

\* this step makes a debounced dispatch request on dispatcher h
Requests(h) ==
    IF h = "group" THEN obs'.op = "update" /\ obs'.source = "group"
    ELSE obs'.op = "event" /\ obs'.scheduled

\* the arguments of the request this step makes on dispatcher h
Requested(h) == IF h = "group" THEN obs'.kwargs ELSE EmptyDict

\* this step is the debounced execution of dispatcher h starting
Executes(h) == obs'.op = "attempt" /\ obs'.h = h /\ obs'.attempt = 0

\* C18: debounce coalescing. Per dispatcher there is one pending
\* execution at most; a request made while one is pending replaces its
\* arguments and leaves one pending; the execution runs with the arguments
\* of the most recent request and leaves none pending; nothing but a
\* request or the execution changes what is pending.
C18_DebounceCoalesces ==
    [][\A h \in Debounced :
        /\ (Requests(h) /\ debouncer[h].timer) =>
                debouncer'[h] = [timer |-> TRUE, data |-> Requested(h),
                                 locked |-> FALSE]
        /\ Executes(h) =>
                /\ debouncer[h].timer
                /\ obs'.data = debouncer[h].data
                /\ ~debouncer'[h].timer
        /\ (debouncer[h].timer /\ ~Requests(h) /\ ~Executes(h)) =>
                debouncer'[h] = debouncer[h]]_vars

\* a second user command with another temperature has replaced the first
\* one while that was still waiting for its debounce timer
C18_Witness ==
    /\ obs.op = "update"
    /\ obs.source = "group"
    /\ Has(obs.before, "last_source")
    /\ obs.before["last_source"] = "group"
    /\ obs.before["temperature"] # obs.kwargs["temperature"]
    /\ debouncer["group"] = [timer |-> TRUE, data |-> obs.kwargs, locked |-> FALSE]
    /\ \A t \in TaskIds : tasks[t].pc = "idle"
    /\ \A m \in Members : entity_context[m] = NoContext

\* a later attempt of an enforcement dispatch, which was started without
\* an override map
SyncRetry ==
    /\ obs.op = "attempt"
    /\ obs.h = "sync_mode"
    /\ obs.attempt > 0

\* C19: a retry recomputes the entire batch. A later attempt of an
\* enforcement dispatch is generated from the input of its first attempt,
\* the full TargetState, against the members' current states: it issues
\* the commands a fresh dispatch would issue now.
C19_RetryRecomputesBatch ==
    SyncRetry =>
        /\ IsEmpty(obs.data)
        /\ obs.calls = generate_calls("sync_mode", EmptyDict, obs.tids)

\* C20: a dispatch terminates and never raises. No attempt carries a number
\* above retry_attempts, so a dispatch makes 1 + retry_attempts attempts at
\* most; an attempt that yields no command ends the dispatch; a command
\* that fails in the last attempt ends the dispatch as well, the coroutine
\* returns to its caller, and the debouncer that ran it is released.
C20_DispatchTerminates ==
    /\ [](\A t \in TaskIds :
            /\ tasks[t].pc \in {"idle", "await", "sleep"}
            /\ tasks[t].pc # "idle" => tasks[t].attempt <= cfg.retry_attempts)
    /\ [](obs.op = "attempt" => obs.attempt <= cfg.retry_attempts)
    /\ [][(obs'.op = "attempt" /\ obs'.calls = << >>) =>
            \A t \in TaskIds : tasks'[t] # tasks[t] => tasks'[t] = Idle]_vars
    /\ [][(obs'.op = "return" /\ ~obs'.ok /\ obs'.attempt = cfg.retry_attempts) =>
            /\ obs'.done
            /\ \A t \in TaskIds : tasks'[t] # tasks[t] => tasks'[t] = Idle
            /\ obs'.h \in Debounced => ~debouncer'[obs'.h].locked]_vars

\* with one retry configured, a command failed in the first attempt and a
\* command failed again in the second: the dispatch is over, nothing runs,
\* the debouncer is free again
C20_Witness ==
    /\ cfg.retry_attempts = MaxRetry
    /\ inputs = MaxInputs
    /\ obs.op = "return"
    /\ ~obs.ok
    /\ obs.attempt = MaxRetry
    /\ obs.done
    /\ obs.h = "sync_mode"
    /\ \A m \in Members : entity_context[m] = NoContext
    /\ \A t \in TaskIds : tasks[t].pc = "idle"
    /\ ~debouncer["sync_mode"].locked

-----------------------------------------------------------------------------
(* Teardown, blocking and the sync modes *)

\* C21: teardown quiescence. Once the entity is removed no debounce timer
\* of any dispatcher is pending, no window timer runs, no dispatch
\* coroutine is awaiting or sleeping, no attempt issues a command and no
\* member carries one out.
C21_TeardownQuiescence ==
    platform_state = "removed" =>
        /\ \A h \in Handlers : ~debouncer[h].timer
        /\ \A w \in Windows : timers[w] = "none"
        /\ \A t \in TaskIds : tasks[t].pc = "idle"
        /\ obs.op = "attempt" => obs.calls = << >>
        /\ obs.op # "apply"

\* the payloads a dispatch is started with: none, a setpoint, a mode
Payloads == {EmptyDict} \cup TempDicts(Temps) \cup {ModeDict(m) : m \in Modes}

\* the dispatches the blocking mode stops altogether
FullyBlocked(h, data) ==
    \/ h \in {"sync_mode", "schedule"}
    \/ h = "group" /\ ~Has(data, "hvac_mode")

PolicyOn == cfg.ignore_off_members /\ ~TargetOff

\* some available member reports a mode other than off
AnyActive ==
    \E e \in Members :
        states[e].state \notin {HVAC_OFF, STATE_UNAVAILABLE, STATE_UNKNOWN}

\* the i-th command of the attempt in obs carries a value other than off
NonOffCall(i) ==
    \E a \in DOMAIN obs.calls[i].kwargs : ~is_off_value(a, obs.calls[i].kwargs[a])

\* the attributes, the range pair apart, an enforcement dispatch looks at
PlainAttrs == (DOMAIN target \cap cfg.sync_attrs \cap AttrSet) \ RangeAttrs

\* the members for which attribute a would be commanded but for the policy
Unsynced(a) == {m \in Members : Supports(m, a) /\ ~Equals(m, a)}

\* the original reading of C23: off members are excluded from a non-off
\* command exactly when some other member is left to be targeted for that
\* attribute; when the exclusion would leave nobody, they are commanded
C23_IgnoreOffPerAttribute ==
    (SyncAttempt /\ PolicyOn) =>
        \A a \in PlainAttrs :
            LET offs == {m \in Unsynced(a) : states[m].state = HVAC_OFF}
                others == Unsynced(a) \ offs
            IN /\ others # {} => \A m \in offs : ~Commanded(m, a)
               /\ others = {} => \A m \in offs : Commanded(m, a)

\* C23: ignore-off exclusion with deadlock prevention. With the policy
\* enabled and the target not off, no attempt of the enforcement
\* dispatcher sends a non-off command to a member that reports off while
\* some available member reports a mode other than off; in a state in
\* which every available member reports off, the commands an enforcement
\* dispatch generates address the off members like any other member
\* that deviates from the target.
C23_IgnoreOffExclusion ==
    /\ (obs.op = "attempt" /\ obs.h = "sync_mode" /\ PolicyOn) =>
            \A i \in DOMAIN obs.calls : \A m \in obs.calls[i].entity_ids :
                (states[m].state = HVAC_OFF /\ NonOffCall(i)) => ~AnyActive
    /\ (PolicyOn /\ ~AnyActive) =>
            LET calls == generate_calls("sync_mode", EmptyDict, target_entity_ids)
            IN \A a \in PlainAttrs : \A m \in Unsynced(a) :
                    \E i \in DOMAIN calls :
                        a \in DOMAIN calls[i].kwargs /\ m \in calls[i].entity_ids

\* an enforcement attempt commands the active member and passes over the
\* off member, which supports the commanded attribute and deviates on it
C23_Witness ==
    /\ SyncAttempt
    /\ PolicyOn
    /\ \E a \in PlainAttrs : \E off \in Unsynced(a), on \in Unsynced(a) :
            /\ states[off].state = HVAC_OFF
            /\ states[on].state = "heat"
            /\ Commanded(on, a)
            /\ ~Commanded(off, a)

\* every available member reports the target value for every synced
\* attribute it has and supports
Converged ==
    \A m \in ValidMembers : \A a \in DOMAIN target \cap cfg.sync_attrs \cap AttrSet :
        (Reports(m, a) /\ Supports(m, a)) => Equals(m, a)

\* the listener has just handled a member's own change as an independent
\* event (past startup, not blocked), and it was the last external change
LastIndependentChange ==
    /\ obs.op = "event"
    /\ obs.branch = "independent"
    /\ inputs = MaxInputs

\* C24: eventual convergence in Lock mode. After a member's independent
\* change of a synced attribute, handled past startup and not blocked, with
\* no later external change and every command succeeding, eventually
\* every available member reports the target value for every synced
\* attribute it supports, and the target attributes are those from before
\* the change.
C24_EventualConvergence ==
    LastIndependentChange ~>
        (Converged /\ Restrict(target, AttrSet) = Restored("heat", 2100))

\* the listener has just handled an event without a causal context that
\* reports a deviation from the target
UnclassifiableEvent ==
    /\ obs.op = "event"
    /\ obs.ctx.kind = "none"
    /\ ~IsEmpty(obs.change_dict)

\* C25: unclassifiable events are never fatal. A member event without a
\* causal context and with a non-empty delta never makes the classifier
\* raise; in Lock and Mirror mode, past startup and with the target not
\* off, it is handled as an independent event and a dispatch is scheduled.
C25_UnclassifiableNeverFatal ==
    UnclassifiableEvent =>
        /\ obs.branch # "raise"
        /\ (cfg.sync_mode # "standard" /\ startup_time = STARTUP_BLOCK_DELAY
                /\ ~(Has(obs.before, "hvac_mode") /\ obs.before["hvac_mode"] = HVAC_OFF))
              => obs.branch = "independent" /\ obs.scheduled

-----------------------------------------------------------------------------
(* Lock and Mirror handling of independent events *)

\* the listener has just handled an independent event under sync mode sm
IndependentEvent(sm) ==
    /\ obs.op = "event"
    /\ cfg.sync_mode = sm
    /\ obs.branch = "independent"

\* the last-man-standing exception: the policy is on, the event reports
\* hvac_mode off and the gatekeeper accepted the update
LastManStanding ==
    /\ cfg.ignore_off_members
    /\ Has(obs.change_dict, "hvac_mode")
    /\ obs.change_dict["hvac_mode"] = HVAC_OFF
    /\ obs.result

\* the Lock frame alone: no attribute of TargetState changes, except
\* hvac_mode to off under the last-man-standing exception
LockFrame ==
    IndependentEvent("lock") =>
        \/ Restrict(shared_target_state, AttrSet) = Restrict(obs.before, AttrSet)
        \/ /\ LastManStanding
           /\ Restrict(shared_target_state, AttrSet) =
                Merge(Restrict(obs.before, AttrSet), ModeDict(HVAC_OFF))

\* C26: Lock mode frame. An independent member event in Lock mode changes
\* no TargetState attribute, except hvac_mode to off under the
\* last-man-standing exception, and in every case a debounced dispatch of
\* TargetState is scheduled afterwards.
C26_LockFrameAndDispatch ==
    /\ LockFrame
    /\ IndependentEvent("lock") =>
            /\ obs.scheduled
            /\ debouncer["sync_mode"].timer
            /\ debouncer["sync_mode"].data = EmptyDict

\* the delta of the event just handled after the setpoint filter, which
\* resync applied against the target it found
FilteredDelta ==
    IF /\ Has(obs.before, "hvac_mode")
       /\ obs.before["hvac_mode"] = HVAC_OFF
       /\ ~is_switching_on(obs.change_dict)
    THEN Restrict(obs.change_dict, DOMAIN obs.change_dict \ SetpointAttrs)
    ELSE obs.change_dict

\* the part of the filtered delta that the configured sync attributes enable
EnabledDelta == Restrict(FilteredDelta, cfg.sync_attrs)

\* C27: Mirror mode adoption. An independent member event in Mirror mode
\* offers the gatekeeper exactly the filtered delta attributes that the
\* FilterState enables; when the gatekeeper accepts, exactly those are
\* written into TargetState and the provenance names the reporting member;
\* otherwise TargetState is unchanged. An attribute outside the configured
\* sync attributes is never adopted.
C27_MirrorAdoption ==
    IndependentEvent("mirror") =>
        /\ obs.kwargs = EnabledDelta
        /\ IF ~IsEmpty(EnabledDelta) /\ obs.result
           THEN /\ Restrict(shared_target_state, AttrSet) =
                    Merge(Restrict(obs.before, AttrSet), EnabledDelta)
                /\ shared_target_state["last_entity"] = obs.entity_id
                /\ shared_target_state["last_source"] = "sync_mode"
           ELSE shared_target_state = obs.before
        /\ \A a \in AttrSet \ cfg.sync_attrs :
                /\ Has(shared_target_state, a) = Has(obs.before, a)
                /\ Has(obs.before, a) => shared_target_state[a] = obs.before[a]

\* a Mirror event adopted one enabled attribute while the delta also
\* carried an attribute the configuration does not enable
C27_Witness ==
    /\ IndependentEvent("mirror")
    /\ obs.result
    /\ ~IsEmpty(EnabledDelta)
    /\ DOMAIN FilteredDelta \ cfg.sync_attrs # {}
    /\ shared_target_state # obs.before

-----------------------------------------------------------------------------
(* TargetState as a value *)

\* field k of value d holds v, None standing for an absent field
Holds(d, k, v) ==
    IF v = NoneField(k) THEN ~Has(d, k) ELSE Has(d, k) /\ d[k] = v

\* the value of field k of d (None when absent)
FieldOf(d, k) == IF Has(d, k) THEN d[k] ELSE NoneField(k)

\* C28: TargetState structural update. update(partial) yields a value in
\* which exactly the provided fields are replaced by the provided values
\* and every other field, provenance included, keeps its prior value; the
\* original value is the one the call was made on, unmodified; to_dict on a
\* list of attributes returns exactly the requested attributes that are
\* not absent, with their values, and leaves the value as it was.
C28_StructuralUpdate ==
    /\ obs.op = "replace" =>
            /\ DOMAIN shared_target_state \subseteq TargetFields
            /\ \A k \in TargetFields :
                    IF Has(obs.kwargs, k)
                    THEN Holds(shared_target_state, k, obs.kwargs[k])
                    ELSE Holds(shared_target_state, k, FieldOf(obs.self, k))
    /\ obs.op = "to_dict" =>
            /\ shared_target_state = obs.self
            /\ DOMAIN obs.result = obs.attributes \cap DOMAIN obs.self
            /\ \A k \in DOMAIN obs.result : obs.result[k] = obs.self[k]

\* an update replaced one field, removed another by None, ignored a name
\* that is no field, and kept a provenance field it was not given
C28_Witness ==
    /\ obs.op = "replace"
    /\ Has(obs.kwargs, "entity_id")
    /\ Has(obs.kwargs, "hvac_mode") /\ obs.kwargs["hvac_mode"] = PyNone
    /\ Has(obs.self, "hvac_mode")
    /\ Has(obs.kwargs, "temperature") /\ obs.kwargs["temperature"] = 2000
    /\ Has(obs.self, "temperature") /\ obs.self["temperature"] # 2000
    /\ ~Has(obs.kwargs, "last_entity") /\ Has(obs.self, "last_entity")
    /\ Has(obs.self, "fan_mode") /\ ~Has(obs.kwargs, "fan_mode")

-----------------------------------------------------------------------------
(* Retries and the close delay *)

\* C29: retry only on failure. A dispatch whose attempt ended without a
\* failed command issues no further command: a later attempt of the same
\* invocation sends commands only when some command of the previous
\* attempt failed.
C29_RetryOnlyOnFailure ==
    [][\A t \in TaskIds :
            (tasks[t].pc = "sleep" /\ tasks'[t].pc = "await") => tasks[t].failed]_vars

\* the dispatch in slot t has just ended a pass of its retry loop
PassEnds(t) ==
    /\ tasks[t].pc = "await"
    /\ tasks'[t].pc # "await"
    /\ obs'.op = "return"

\* C29 as the code has it: the loop is driven by what is still pending, not
\* by failure. After every pass but the last, failed or not, the
\* invocation sleeps and then generates its commands again; it issues
\* further commands exactly when that list is not empty and otherwise
\* ends. After the last pass it ends.
C29_RetryUntilNothingPending ==
    /\ [][\A t \in TaskIds :
            PassEnds(t) =>
                tasks'[t].pc = IF tasks[t].attempt < cfg.retry_attempts
                               THEN "sleep" ELSE "idle"]_vars
    /\ [][\A t \in TaskIds :
            (tasks[t].pc = "sleep" /\ tasks'[t] # tasks[t]) =>
                /\ tasks[t].attempt < cfg.retry_attempts
                /\ tasks'[t].pc =
                     IF generate_calls(tasks[t].h, tasks[t].data,
                                       target_entity_ids) # << >>
                     THEN "await" ELSE "idle"]_vars

\* a pass in which every command succeeded has ended, attempts remain and
\* commands are still pending for the next pass
C29_Witness ==
    \E t \in TaskIds :
        /\ tasks[t].pc = "sleep"
        /\ ~tasks[t].failed
        /\ obs.op = "return" /\ obs.ok
        /\ generate_calls(tasks[t].h, tasks[t].data, target_entity_ids) # << >>

\* member m was switched off by a window-control command and is still off
ForcedOff(m) ==
    /\ states[m].state = HVAC_OFF
    /\ entity_context[m].kind = "call"
    /\ entity_context[m].id = "window_control"

\* the zone of sensor w is not yet released: a sensor of the zone is open,
\* or w reported closed and its close delay is still running
ZoneHeld(w) ==
    \/ is_open(w)
    \/ area_windows_open(w)
    \/ timers[w] = "close"

\* the attempt just generated addresses member m with something else than
\* hvac_mode off
NonOffCommand(m) ==
    /\ obs.op = "attempt"
    /\ \E i \in 1..Len(obs.calls) :
            /\ m \in obs.calls[i].entity_ids
            /\ obs.calls[i].kwargs # ModeDict(HVAC_OFF)

\* C30: the close delay is honoured. While a zone is held (a sensor of it
\* is open, or the close delay of a sensor that reported closed has not
\* elapsed), no dispatch of this system sends a member that window control
\* forced off anything but hvac_mode off; in particular the sync
\* dispatcher does not switch it back on.
C30_CloseDelayHonoured ==
    \A w \in cfg.window_sensors : \A m \in thermostats_in_area(w) :
        (ForcedOff(m) /\ ZoneHeld(w)) => ~NonOffCommand(m)

-----------------------------------------------------------------------------
(* Restoration, the delta of an event, and the handling of echoes *)

\* the close timer of sensor w has just expired and the restore was issued
RestoreStep(w) ==
    /\ timers[w] = "close"
    /\ timers'[w] = "none"
    /\ obs'.op = "attempt"
    /\ obs'.h = "window_control"

\* C31: restoration uses the current target. When the close timer of a
\* zone expires and the zone is released, the restore is generated from
\* hvac_mode and temperature of TargetState as it is at that moment, it
\* addresses members of the zone only, and every value it sends is the
\* value TargetState holds then (the minimum temperature while off being
\* the one injected value).
C31_RestoreUsesCurrentTarget ==
    [][\A w \in Windows :
        RestoreStep(w) =>
            LET current == Restrict(shared_target_state', {"hvac_mode", "temperature"})
            IN /\ obs'.data = current
               /\ obs'.tids = thermostats_in_area(w)
               /\ \A i \in 1..Len(obs'.calls) :
                    /\ obs'.calls[i].entity_ids \subseteq thermostats_in_area(w)
                    /\ \A k \in DOMAIN obs'.calls[i].kwargs :
                            obs'.calls[i].kwargs[k] = min_temp_when_off(current)[k]]_vars

\* a restore was sent with a temperature written to TargetState after the
\* window had opened
C31_Witness ==
    /\ obs.op = "attempt"
    /\ obs.h = "window_control"
    /\ obs.data # ModeDict(HVAC_OFF)
    /\ shared_target_state["temperature"] # WindowTarget["temperature"]
    /\ \E i \in 1..Len(obs.calls) :
            /\ Has(obs.calls[i].kwargs, "temperature")
            /\ obs.calls[i].kwargs["temperature"] = shared_target_state["temperature"]

\* target value t and observed value v of attribute a differ: beyond the
\* tolerance for a numeric attribute, at all for any other
DiffersFrom(a, t, v) ==
    IF a \in SetpointAttrs THEN Abs(t - v) >= FLOAT_TOLERANCE ELSE t # v

\* C32: the delta of a member event. It contains an attribute exactly when
\* TargetState and the member's new state both have a value for it and
\* the values differ, beyond the numeric tolerance for temperature,
\* target_temp_low, target_temp_high and humidity and at all for the
\* other attributes; it carries the observed value and the id of the
\* member the event came from.
C32_DeltaBeyondTolerance ==
    obs.op = "event" =>
        /\ obs.entity_id \in Members
        /\ \A a \in AttrSet :
            LET v == member_val(states[obs.entity_id], a) IN
            /\ Has(obs.change_dict, a) <=>
                    /\ Has(obs.before, a)
                    /\ v # NoneOf(a)
                    /\ DiffersFrom(a, obs.before[a], v)
            /\ Has(obs.change_dict, a) => obs.change_dict[a] = v

\* the listener has just handled an event that is neither an echo of an
\* own command nor a window-control echo, with a non-empty delta, in a
\* sync mode that reacts, past startup and outside blocking mode
IndependentOrigin ==
    /\ obs.op = "event"
    /\ cfg.sync_mode # "standard"
    /\ obs.branch \in {"none", "independent"}
    /\ obs.ctx.kind = "state"
    /\ ~obs.blocking
    /\ startup_time = STARTUP_BLOCK_DELAY
    /\ ~IsEmpty(obs.change_dict)

\* the target was off and the delta does not switch hvac_mode on
OffAndStayingOff ==
    /\ Has(obs.before, "hvac_mode")
    /\ obs.before["hvac_mode"] = HVAC_OFF
    /\ ~(Has(obs.change_dict, "hvac_mode") /\ obs.change_dict["hvac_mode"] # HVAC_OFF)

\* C33: the setpoint filter while off. For an independent member event
\* that arrives while TargetState.hvac_mode is off and does not switch
\* hvac_mode on, no setpoint attribute of TargetState changes, and when
\* the delta holds setpoints only TargetState is left as it was and no
\* dispatch is scheduled.
C33_SetpointFilterWhileOff ==
    (IndependentOrigin /\ OffAndStayingOff) =>
        /\ \A a \in SetpointAttrs :
                /\ Has(shared_target_state, a) = Has(obs.before, a)
                /\ Has(obs.before, a) => shared_target_state[a] = obs.before[a]
        /\ DOMAIN obs.change_dict \subseteq SetpointAttrs =>
                /\ shared_target_state = obs.before
                /\ ~obs.scheduled
                /\ obs.branch = "none"

\* in Mirror mode with the target off, one event reported a setpoint
\* together with another attribute: the other attribute was adopted and a
\* dispatch scheduled, the setpoint was not
C33_Witness ==
    /\ IndependentOrigin
    /\ OffAndStayingOff
    /\ cfg.sync_mode = "mirror"
    /\ DOMAIN obs.change_dict \cap SetpointAttrs # {}
    /\ DOMAIN obs.change_dict \ SetpointAttrs # {}
    /\ obs.scheduled
    /\ shared_target_state # obs.before

\* an event whose delta held setpoints only was dropped by the filter
SetpointsOnlyDropped ==
    /\ IndependentOrigin
    /\ OffAndStayingOff
    /\ DOMAIN obs.change_dict \subseteq SetpointAttrs

\* the listener has just classified an event as the echo of an own command
OwnEcho == obs.op = "event" /\ obs.branch = "echo"

\* the side effects of the echo: deviations outside the ordered payload,
\* reported by the master of the batch or in a batch without master
AcceptedSideEffects ==
    Restrict(obs.change_dict,
        {a \in DOMAIN obs.change_dict :
            /\ ~Has(obs.ctx.service_data, a)
            /\ (obs.ctx.master = "" \/ obs.entity_id = obs.ctx.master)})

\* the sync gatekeeper lets the side effects through: no blocking mode,
\* and no hvac_mode off against the last-man-standing predicate
GatekeeperAccepts ==
    /\ ~obs.blocking
    /\ \/ ~cfg.ignore_off_members
       \/ ~(Has(AcceptedSideEffects, "hvac_mode") /\ AcceptedSideEffects["hvac_mode"] = HVAC_OFF)
       \/ other_active_members(obs.entity_id) = {}

\* C34: side-effect folding. The accepted side effects of an own-command
\* echo are offered to the sync gatekeeper unmasked by the FilterState, in
\* Lock as in Mirror mode; they are written into TargetState exactly when
\* the gatekeeper accepts (never under blocking mode or against the
\* last-man-standing predicate), and the classifier returns without
\* scheduling a dispatch.
C34_SideEffectFolding ==
    OwnEcho =>
        /\ cfg.sync_mode \in {"lock", "mirror"}
        /\ obs.kwargs = AcceptedSideEffects
        /\ obs.result = (~IsEmpty(AcceptedSideEffects) /\ GatekeeperAccepts)
        /\ IF obs.result
           THEN Restrict(shared_target_state, AttrSet) =
                    Merge(Restrict(obs.before, AttrSet), AcceptedSideEffects)
           ELSE shared_target_state = obs.before
        /\ ~obs.scheduled

\* in Lock mode the echo of an own command folded a side effect into
\* TargetState
C34_Witness ==
    /\ OwnEcho
    /\ cfg.sync_mode = "lock"
    /\ obs.result
    /\ shared_target_state # obs.before

\* a folded side effect lay outside the configured sync attributes
SideEffectUnmasked ==
    /\ OwnEcho
    /\ obs.result
    /\ DOMAIN AcceptedSideEffects \ cfg.sync_attrs # {}

\* the gatekeeper refused a side effect
SideEffectRefused ==
    /\ OwnEcho
    /\ ~IsEmpty(AcceptedSideEffects)
    /\ ~obs.result

-----------------------------------------------------------------------------
(* Seeding and startup *)

\* C35: the seeding precondition. TargetState is seeded from the observed
\* member state only while it is empty and only from a snapshot in which
\* every member is available; a non-empty TargetState is never reseeded,
\* and every other change of it is a write a gatekeeper accepted.
C35_SeedingPrecondition ==
    /\ [](ColdStarted => ValidMembers = Members)
    /\ [][shared_target_state' # shared_target_state =>
            \/ IsEmpty(shared_target_state) /\ obs'.op = "event"
            \/ obs'.result]_vars

\* the part of C35 that does not depend on which members are available
SeededOnceThenGatekept ==
    [][shared_target_state' # shared_target_state =>
            \/ IsEmpty(shared_target_state) /\ obs'.op = "event"
            \/ obs'.result]_vars

\* the sync handler left the event just handled alone: no write to a
\* non-empty TargetState and no dispatch scheduled
SyncHandlerIdle ==
    /\ ~obs.scheduled
    /\ IsEmpty(obs.kwargs)
    /\ ~IsEmpty(obs.before) => shared_target_state = obs.before

\* the event arrived less than the startup block delay after all members
\* were ready for the first time
WithinStartupDelay ==
    /\ obs.op = "event"
    /\ startup_time # NoneNum
    /\ now - startup_time < STARTUP_BLOCK_DELAY

\* the event arrived before all members had ever been ready
BeforeFirstReady ==
    /\ obs.op = "event"
    /\ startup_time = NoneNum

\* the block as the code applies it: from the moment all members are ready
\* until the delay has passed
StartupBlockAfterReady == WithinStartupDelay => SyncHandlerIdle

\* C36: the startup block. In response to a member event the sync handler
\* writes nothing to TargetState and schedules no dispatch until all
\* members have been ready for at least the startup block delay, events
\* that arrive before all members were ever ready included.
C36_StartupBlock ==
    (WithinStartupDelay \/ BeforeFirstReady) => SyncHandlerIdle

-----------------------------------------------------------------------------
(* Superseded commands, suppression and the range command *)

\* nothing is pending: no debounce timer, no dispatch, no unhandled event
Settled ==
    /\ event = NoEvent
    /\ \A t \in TaskIds : tasks[t].pc = "idle"
    /\ \A h \in Handlers : ~debouncer[h].timer

\* member m took the temperature TargetState holds from a command of the
\* group handler
HoldsLatest(m) ==
    /\ Has(shared_target_state, "temperature")
    /\ Has(states[m].attributes, "temperature")
    /\ states[m].attributes["temperature"] = shared_target_state["temperature"]
    /\ entity_context[m].kind = "call"
    /\ entity_context[m].id = "group"

\* a command of the group handler carrying another temperature than
\* TargetState holds has just been delivered to member m
StaleDelivery(m) ==
    /\ obs'.op = "apply"
    /\ obs'.h = "group"
    /\ obs'.entity_id = m
    /\ Has(obs'.kwargs, "temperature")
    /\ obs'.kwargs["temperature"] # shared_target_state["temperature"]

\* a member that received the latest temperature is never sent an older one
NoStaleAfterLatest ==
    [][\A m \in Members :
        (HoldsLatest(m) /\ shared_target_state' = shared_target_state)
            => ~StaleDelivery(m)]_vars

\* C37: superseded commands do not win. With the user setting the
\* temperature to v1 and later to v2, no member is sent v1 after it was
\* sent v2, and once all dispatch activity has settled every member and
\* TargetState hold the value of the last command.
C37_SupersededCommandsLose ==
    /\ NoStaleAfterLatest
    /\ [](Settled =>
            \A m \in Members :
                /\ Has(shared_target_state, "temperature")
                /\ states[m].attributes["temperature"] =
                        shared_target_state["temperature"])

\* C38: no sync command under suppression. The sync dispatcher issues no
\* command in an attempt made while blocking mode is active, the attempts
\* made after a retry delay of a dispatch that started unblocked included.
C38_NoSyncCommandUnderSuppression ==
    (obs.op = "attempt" /\ obs.h = "sync_mode" /\ blocking_mode) =>
        obs.calls = << >>

\* no command of the sync dispatcher reaches a member under suppression
SyncDeliveryUnblocked ==
    (obs.op = "apply" /\ obs.h = "sync_mode") => ~blocking_mode

\* the first attempt of a sync dispatch is never made under suppression
FirstSyncAttemptUnblocked ==
    (obs.op = "attempt" /\ obs.h = "sync_mode" /\ obs.attempt = 0
        /\ blocking_mode) => obs.calls = << >>

\* the members the combined range command of the attempt in obs goes to
RangeTargets ==
    UNION {obs.calls[i].entity_ids :
            i \in {j \in DOMAIN obs.calls :
                    DOMAIN obs.calls[j].kwargs = RangeAttrs}}

\* the members whose low or high value is out of tolerance and enforced
RangeDiverged ==
    {m \in ValidMembers :
        /\ \A a \in RangeAttrs : Enforced(m, a)
        /\ \E a \in RangeAttrs : Deviates(m, a)}

\* C39: range command reaches every diverged member. In every attempt of
\* a sync dispatch, first or retried, every member whose target_temp_low or
\* target_temp_high differs from TargetState beyond tolerance is among the
\* targets of the attempt's combined range command.
C39_RangeCommandReachesDiverged ==
    (obs.op = "attempt" /\ obs.h = "sync_mode" /\ ~obs.blocked) =>
        RangeDiverged \subseteq RangeTargets

\* the same for first attempts only
FirstAttemptRangeReachesDiverged ==
    SyncAttempt => RangeDiverged \subseteq RangeTargets

\* in a first attempt the range command goes to the members that deviate
\* in target_temp_low, when there are any
RangeTargetsFromLowAlone ==
    (SyncAttempt /\ \E m \in RangeDiverged : Deviates(m, "target_temp_low")) =>
        RangeTargets = {m \in RangeDiverged : Deviates(m, "target_temp_low")}

-----------------------------------------------------------------------------
(* Restoring after a window closed *)

\* a window-control command to the zone of sensor w is outstanding: a member
\* of the zone is off by window control, or a window-control dispatch is
\* still running
ForcedOffOutstanding(w) ==
    \/ \E m \in thermostats_in_area(w) : ForcedOff(m)
    \/ \E t \in TaskIds :
            tasks[t].pc # "idle" /\ tasks[t].h = "window_control"

\* C40: restore only after a forced off. When the close timer of a sensor
\* expires, a restore command is issued to the members of its zone only if
\* a forced-off command to that zone is outstanding; a sensor that opened
\* and closed again before its open delay elapsed leads to no command.
C40_RestoreOnlyAfterForcedOff ==
    [][\A w \in Windows :
        (RestoreStep(w) /\ obs'.calls # << >>) => ForcedOffOutstanding(w)]_vars

=============================================================================
